---------------------------- MODULE Spec2Model ----------------------------
(***************************************************************************)
(* A model of the spicetrader trading engine:                              *)
(*   - the multi-instrument loop (MultiCoinBot.run_iteration) driving the  *)
(*     CoinTrader of a pair, and the single-instrument AdaptiveBot, each   *)
(*     with the TradingDatabase and restarts (specification Spec),         *)
(*   - the strategy switcher of one controller on its own, over all eight  *)
(*     market states (specification SpecSwitch),                           *)
(*   - TradingDatabase.close_position on its own (specification SpecStore),*)
(*   - the OHLC candle cache (specification SpecOHLC).                     *)
(*                                                                         *)
(* Wall-clock time is counted in ticks.  None is the string "none" for     *)
(* names and NoTime / NoId / NoPrice for times, row ids and amounts.       *)
(* Python strings that the code mangles (class names, strategy names) are  *)
(* sequences of characters, so that the mangling is computed and not       *)
(* assumed.  The signal of a strategy's analyze() is an input of the       *)
(* model, and so are the state the market analyzer reports, the failures   *)
(* of the store lookup, of the ticker and of the exchange, and the mode    *)
(* (DRY_RUN) a process is started in.  The loop trades one pair.           *)
(***************************************************************************)
EXTENDS Integers, Sequences, FiniteSets, TLC

(***************************************************************************)
(* Bounds of the model.                                                    *)
(***************************************************************************)
MaxTime == 3          \* the loop starts no iteration from this tick on
MaxSwitchTime == 10   \* the controller on its own classifies before this tick
MaxPositions == 2     \* rows of the positions table
MaxRestarts == 1      \* restarts of the process
MaxRows == 3          \* rows of one OHLC response

(***************************************************************************)
(* Configuration of the run that is modelled (in ticks and counts).        *)
(***************************************************************************)
DayLength == 9                \* ticks per local calendar day
reanalysis_interval == 1
switch_cooldown == 3
confirmations_required == 2
max_switches_per_day == 2
min_required == 1             \* MarketAnalyzer.get_required_data_points()

\* Fee rates in 1/10000 (FeeCalculator's defaults), and the exit gate of macd
taker_fee == 26
min_profit_target == 100
min_hold_time == 1

\* Money is counted in 1/10000 of the quote currency.
FeeScale == 10000

NoTime == 0 - 1
NoId == 0
NoPrice == 0 - 1

(***************************************************************************)
(* Python strings as sequences of characters.                              *)
(***************************************************************************)
RECURSIVE StartsWith(_, _)
StartsWith(s, p) ==
    IF p = <<>> THEN TRUE
    ELSE IF s = <<>> THEN FALSE
    ELSE Head(s) = Head(p) /\ StartsWith(Tail(s), Tail(p))

RECURSIVE Drop(_, _)
Drop(s, n) == IF n = 0 THEN s ELSE Drop(Tail(s), n - 1)

\* str.replace(old, new): every non-overlapping occurrence, left to right
RECURSIVE Replace(_, _, _)
Replace(s, old, new) ==
    IF s = <<>> THEN <<>>
    ELSE IF StartsWith(s, old) THEN new \o Replace(Drop(s, Len(old)), old, new)
    ELSE <<Head(s)>> \o Replace(Tail(s), old, new)

LowerChar(c) ==
    CASE c = "A" -> "a" [] c = "B" -> "b" [] c = "C" -> "c" [] c = "D" -> "d"
      [] c = "G" -> "g" [] c = "M" -> "m" [] c = "R" -> "r" [] c = "S" -> "s"
      [] c = "T" -> "t" [] OTHER -> c

\* str.lower()
Lower(s) == [i \in 1..Len(s) |-> LowerChar(s[i])]

\* The class names of the strategy family.
MeanReversionStrategy ==
    <<"M","e","a","n","R","e","v","e","r","s","i","o","n","S","t","r","a","t","e","g","y">>
SMACrossoverStrategy ==
    <<"S","M","A","C","r","o","s","s","o","v","e","r","S","t","r","a","t","e","g","y">>
BreakoutStrategy ==
    <<"B","r","e","a","k","o","u","t","S","t","r","a","t","e","g","y">>
MACDStrategy ==
    <<"M","A","C","D","S","t","r","a","t","e","g","y">>
GridTradingStrategy ==
    <<"G","r","i","d","T","r","a","d","i","n","g","S","t","r","a","t","e","g","y">>

StrategyClasses ==
    {MeanReversionStrategy, SMACrossoverStrategy, BreakoutStrategy, MACDStrategy,
     GridTradingStrategy}

\* The strategy names of MarketCondition.get_recommended_strategy.
mean_reversion == <<"m","e","a","n","_","r","e","v","e","r","s","i","o","n">>
sma_crossover == <<"s","m","a","_","c","r","o","s","s","o","v","e","r">>
breakout == <<"b","r","e","a","k","o","u","t">>
macd == <<"m","a","c","d">>
grid == <<"g","r","i","d">>

NoStrategy == <<>>            \* current_strategy is None

MarketStates ==
    {"strong_uptrend", "strong_downtrend", "moderate_trend", "range_bound",
     "volatile_breakout", "choppy", "low_volatility", "unknown"}

get_recommended_strategy(state) ==
    IF state = "range_bound" THEN mean_reversion
    ELSE IF state \in {"strong_uptrend", "strong_downtrend"} THEN sma_crossover
    ELSE IF state = "moderate_trend" THEN macd
    ELSE IF state = "volatile_breakout" THEN breakout
    ELSE IF state = "choppy" THEN mean_reversion
    ELSE IF state = "low_volatility" THEN grid
    ELSE mean_reversion

\* StrategySelector._get_strategy_instance: the class instantiated for a name
get_strategy_instance(name) ==
    IF name = mean_reversion THEN MeanReversionStrategy
    ELSE IF name = sma_crossover THEN SMACrossoverStrategy
    ELSE IF name = breakout THEN BreakoutStrategy
    ELSE IF name = macd THEN MACDStrategy
    ELSE IF name = grid THEN GridTradingStrategy
    ELSE MeanReversionStrategy

select_strategy(state) == get_strategy_instance(get_recommended_strategy(state))

Strategy == <<"S","t","r","a","t","e","g","y">>
none_name == <<"n","o","n","e">>

\* CoinTrader._get_strategy_name
CoinTrader_get_strategy_name(class) ==
    IF class = NoStrategy THEN none_name
    ELSE Lower(Replace(class, Strategy, <<>>))

\* AdaptiveBot._get_strategy_name
AdaptiveBot_get_strategy_name(class) ==
    IF class = NoStrategy THEN none_name
    ELSE Replace(Replace(Lower(Replace(class, Strategy, <<>>)),
                         <<"s","m","a">>, <<"s","m","a","_">>),
                 <<"c","r","o","s","s","o","v","e","r">>,
                 <<"c","r","o","s","s","o","v","e","r">>)

\* The two functions, tabulated over the classes a strategy object can have
CoinTrader_strategy_names ==
    [class \in StrategyClasses \cup {NoStrategy} |->
        CoinTrader_get_strategy_name(class)]

AdaptiveBot_strategy_names ==
    [class \in StrategyClasses \cup {NoStrategy} |->
        AdaptiveBot_get_strategy_name(class)]

(***************************************************************************)
(* CoinTrader: the per-symbol controller and its current strategy object.  *)
(* A trader is a record; the fields strategy, position and last_signal are *)
(* the current strategy's class, its local position and its last_signal.   *)
(***************************************************************************)
Day(t) == t \div DayLength

\* CoinTrader.__init__
NewTrader(t) ==
    [strategy |-> NoStrategy, position |-> "none", last_signal |-> "none",
     last_analysis_time |-> NoTime,
     last_switch_time |-> NoTime, pending_state |-> "none",
     pending_confirmations |-> 0, switches_today |-> 0, current_day |-> Day(t),
     price_history |-> 0, entry_price |-> NoPrice, entry_fee |-> NoPrice,
     entry_volume |-> NoPrice,     \* AdaptiveBot only
     current_position_id |-> NoId,
     switch_count |-> 0]           \* history: the calls of _switch_strategy

\* TradingStrategy.__init__: a fresh strategy object of the given class
NewStrategy(tr, class) ==
    [tr EXCEPT !.strategy = class, !.position = "none", !.last_signal = "none"]

should_reanalyze(tr, t) ==
    IF tr.last_analysis_time = NoTime THEN TRUE
    ELSE t - tr.last_analysis_time >= reanalysis_interval

\* can_switch_strategy first resets the daily counter on a new day
RolloverDay(tr, t) ==
    IF Day(t) # tr.current_day
    THEN [tr EXCEPT !.current_day = Day(t), !.switches_today = 0]
    ELSE tr

\* A can_switch_strategy without the daily limit
can_switch_without_limit(tr, t) ==
    IF tr.last_switch_time = NoTime THEN TRUE
    ELSE t - tr.last_switch_time >= switch_cooldown

\* A can_switch_strategy without the cooldown
can_switch_without_cooldown(tr, t) ==
    tr.switches_today < max_switches_per_day

\* can_switch_strategy's answer, on the trader after RolloverDay
can_switch_strategy(tr, t) ==
    IF tr.switches_today >= max_switches_per_day THEN FALSE
    ELSE IF tr.last_switch_time = NoTime THEN TRUE
    ELSE IF t - tr.last_switch_time < switch_cooldown THEN FALSE
    ELSE TRUE

\* CoinTrader._switch_strategy / AdaptiveBot._switch_strategy
switch_strategy(tr, t, state) ==
    [NewStrategy(tr, select_strategy(state)) EXCEPT
        !.last_switch_time = t,
        !.switches_today = tr.switches_today + 1,
        !.pending_state = "none",
        !.pending_confirmations = 0,
        !.switch_count = tr.switch_count + 1]

\* The confirmation step of analyze_and_update_strategy, once a different
\* strategy is recommended.
Confirm(tr, t, state) ==
    LET counted ==
            IF tr.pending_state = state
            THEN [tr EXCEPT !.pending_confirmations = tr.pending_confirmations + 1]
            ELSE [tr EXCEPT !.pending_state = state, !.pending_confirmations = 1]
    IN  IF counted.pending_confirmations >= confirmations_required
        THEN LET rolled == RolloverDay(counted, t)
             IN  IF can_switch_strategy(rolled, t)
                 THEN switch_strategy(rolled, t, state)
                 ELSE rolled
        ELSE counted

\* analyze_and_update_strategy, given the state the analyzer reports and the
\* name the bot derives for its running strategy
analyze_and_update_strategy(tr, t, state, current_strategy_name) ==
    IF tr.price_history < min_required THEN tr
    ELSE IF ~should_reanalyze(tr, t) THEN tr
    ELSE LET seen == [tr EXCEPT !.last_analysis_time = t]
         IN  IF tr.strategy = NoStrategy
             THEN NewStrategy(seen, select_strategy(state))
             ELSE IF get_recommended_strategy(state) = current_strategy_name
             THEN [seen EXCEPT !.pending_state = "none", !.pending_confirmations = 0]
             ELSE Confirm(seen, t, state)

\* Whether this call of analyze_and_update_strategy classifies the market
Classifies(tr, t) == tr.price_history >= min_required /\ should_reanalyze(tr, t)

\* update_price_history: only the length of the ring matters here
update_price_history(tr) ==
    [tr EXCEPT !.price_history =
        IF tr.price_history < min_required THEN tr.price_history + 1
        ELSE tr.price_history]

\* CoinTrader.analyze up to the call of the strategy's analyze
CoinTrader_analyze(tr, t, state) ==
    LET fed == update_price_history(tr)
    IN  analyze_and_update_strategy(fed, t, state,
                                    CoinTrader_strategy_names[fed.strategy])


(***************************************************************************)
(* TradingDatabase: the positions and trades tables are sequences of rows; *)
(* a row's id is its index.  The columns market_state, pnl_percent, txid   *)
(* and the timestamps other than entry_time are left out.                  *)
(***************************************************************************)
\* TradingDatabase.open_position: the table with the new row appended
open_position(positions, symbol, strategy, position_type, entry_price, entry_volume, entry_fee, dry_run, t) ==
    Append(positions,
           [symbol |-> symbol, strategy |-> strategy,
            position_type |-> position_type, entry_time |-> t,
            entry_price |-> entry_price, entry_volume |-> entry_volume,
            entry_fee |-> entry_fee, exit_price |-> NoPrice,
            exit_volume |-> NoPrice, exit_fee |-> 0, gross_pnl |-> 0,
            total_fees |-> 0, net_pnl |-> 0, status |-> "open",
            dry_run |-> dry_run])

\* A gross P&L that takes every position for a long one
close_gross_pnl_as_long(position, exit_price, exit_volume) ==
    (exit_price - position.entry_price) * exit_volume

\* The P&L of close_position
close_gross_pnl(position, exit_price, exit_volume) ==
    IF position.position_type = "long"
    THEN (exit_price - position.entry_price) * exit_volume
    ELSE (position.entry_price - exit_price) * exit_volume

close_total_fees(position, exit_fee) == position.entry_fee + exit_fee

close_net_pnl(gross_pnl, total_fees) == gross_pnl - total_fees

\* TradingDatabase.close_position
close_position(positions, position_id, exit_price, exit_volume, exit_fee) ==
    IF position_id \notin DOMAIN positions THEN positions
    ELSE LET position == positions[position_id]
             gross_pnl == close_gross_pnl(position, exit_price, exit_volume)
             total_fees == close_total_fees(position, exit_fee)
         IN  [positions EXCEPT ![position_id] =
                 [position EXCEPT !.exit_price = exit_price,
                                  !.exit_volume = exit_volume,
                                  !.exit_fee = exit_fee,
                                  !.gross_pnl = gross_pnl,
                                  !.total_fees = total_fees,
                                  !.net_pnl = close_net_pnl(gross_pnl, total_fees),
                                  !.status = "closed"]]

\* TradingDatabase.record_trade
record_trade(trades, symbol, strategy, trade_type, side, price, volume, fee, position_type, position_id, dry_run) ==
    Append(trades,
           [symbol |-> symbol, strategy |-> strategy, trade_type |-> trade_type,
            position_type |-> position_type, side |-> side, price |-> price,
            volume |-> volume, value |-> price * volume, fee |-> fee,
            position_id |-> position_id, dry_run |-> dry_run])

\* The ids of the open rows of a symbol
OpenIds(positions, symbol) ==
    {i \in DOMAIN positions :
        positions[i].symbol = symbol /\ positions[i].status = "open"}

\* TradingDatabase.get_open_position: the id of the open row of the symbol
\* with the latest entry_time (the latest row among equals), NoId for None
get_open_position(positions, symbol) ==
    LET open == OpenIds(positions, symbol)
    IN  IF open = {} THEN NoId
        ELSE CHOOSE i \in open :
                \A j \in open :
                    \/ positions[j].entry_time < positions[i].entry_time
                    \/ positions[j].entry_time = positions[i].entry_time /\ j <= i

\* FeeCalculator.calculate_fee for a taker order
calculate_fee(trade_value) == (trade_value * taker_fee) \div FeeScale

(***************************************************************************)
(* CoinTrader.record_entry and record_exit.  Both return the trader and    *)
(* the two tables.                                                         *)
(***************************************************************************)
\* A record_exit that leaves the flag of the exit trade to record_trade's default
exit_trade_default_flag(dry_run) == TRUE

\* The dry_run flag record_exit passes to record_trade
exit_trade_dry_run(dry_run) == dry_run

record_entry(tr, positions, trades, symbol, price, volume, fee, dry_run, t) ==
    LET entry_fee == IF fee > 0 THEN fee ELSE calculate_fee(price * volume)
        position_type == IF tr.position # "none" THEN tr.position ELSE "long"
        strategy_name == CoinTrader_strategy_names[tr.strategy]
        id == Len(positions) + 1
        noted == [tr EXCEPT !.entry_price = price, !.entry_fee = entry_fee]
    IN  IF tr.strategy = NoStrategy
        THEN [tr |-> noted, positions |-> positions, trades |-> trades]
        ELSE [tr |-> [noted EXCEPT !.current_position_id = id],
              positions |-> open_position(positions, symbol, strategy_name,
                                          position_type, price, volume,
                                          entry_fee, dry_run, t),
              trades |-> record_trade(trades, symbol, strategy_name, "entry",
                                      IF position_type = "long" THEN "buy" ELSE "sell",
                                      price, volume, entry_fee, position_type,
                                      id, dry_run)]

record_exit(tr, positions, trades, symbol, price, volume, fee, dry_run) ==
    LET exit_fee == IF fee > 0 THEN fee ELSE calculate_fee(price * volume)
        position_type == IF tr.strategy # NoStrategy /\ tr.position = "long"
                         THEN "long" ELSE "short"
        strategy_name == CoinTrader_strategy_names[tr.strategy]
        reset == [tr EXCEPT !.entry_price = NoPrice, !.entry_fee = NoPrice]
    IN  IF tr.entry_price = NoPrice
        THEN [tr |-> tr, positions |-> positions, trades |-> trades]
        ELSE IF tr.current_position_id = NoId
        THEN [tr |-> reset, positions |-> positions, trades |-> trades]
        ELSE [tr |-> [reset EXCEPT !.current_position_id = NoId],
              positions |-> close_position(positions, tr.current_position_id,
                                           price, volume, exit_fee),
              trades |-> record_trade(trades, symbol, strategy_name, "exit",
                                      IF position_type = "long" THEN "sell" ELSE "buy",
                                      price, volume, exit_fee, position_type,
                                      tr.current_position_id,
                                      exit_trade_dry_run(dry_run))]


(***************************************************************************)
(* The multi-instrument loop.                                              *)
(***************************************************************************)
trading_pairs == <<"XBTUSD">>
Symbols == {trading_pairs[i] : i \in DOMAIN trading_pairs}

LoopStates == {"range_bound", "moderate_trend"}  \* states the loop's analyzer reports
Prices == {10000}             \* last prices the ticker may report
PositionSizes == {0, 1}       \* values calculate_position_size may return
LedgerFees == {0}             \* values get_trade_actual_fee may return

VARIABLES
    now,            \* the wall clock, in ticks
    bot,            \* which program runs: "MultiCoinBot" or "AdaptiveBot"
    dry_run,        \* the dry_run flag of the running process
    restarts,       \* how many times the process was started again
    pc,             \* where run_iteration stands: "idle", "analyze", "execute"
    idx,            \* the index in trading_pairs of the symbol in turn
    signals,        \* run_iteration's signals, "none" for a symbol without one
    traders,        \* MultiCoinBot.traders
    positions,      \* the positions table
    trades,         \* the trades table
    exchange_calls, \* history: the client calls made, with the mode they were made in
    last_exec,      \* history: what the latest execution step did
    watch,          \* history: the classifications and switches of a controller
    ohlc_cache,     \* the OHLCCache of one pair: its candles and its since cursor
    order,          \* a call of normalize_order_with_rules: its inputs and results
    alloc,          \* a call of equal_split_quote_allocation: its inputs and result
    sma,            \* an SMACrossoverStrategy and the closes of its market data
    request,        \* a call of KrakenClient._make_request: its attempts and sleeps
    strategy_switches,  \* the strategy_switches table
    gate,           \* a sell signal at the exit gate of run_iteration
    sizing,         \* the calls of calculate_position_size of one tick
    fee_poll,       \* a call of get_trade_actual_fee and the recording of its fill
    rejection,      \* a signal of a strategy whose order normalization rejects
    bot_run,        \* a run of MultiCoinBot.start: the symbols of its iterations
    history,        \* a CoinTrader's price histories and the data of its pair
    startup,        \* the configuration of a bot, its construction and its loop
    market,         \* a call of MarketAnalyzer._determine_state
    breakout_run,   \* a BreakoutStrategy and the calls of its analyze
    store,          \* the committed rows of the store and a recording in progress
    fill            \* an order of the multi-instrument loop and its recorded fill

\* The variables of the trading loop, and those of the functions that are
\* checked on their own
loop_vars == <<now, bot, dry_run, restarts, pc, idx, signals, traders, positions, trades,
               exchange_calls, last_exec, watch, ohlc_cache>>
early_vars == <<order, alloc, sma, request, strategy_switches, gate, sizing, fee_poll,
                rejection, bot_run, history>>
late_vars == <<startup, market, breakout_run, store, fill>>
unit_vars == <<early_vars, late_vars>>

vars == <<loop_vars, unit_vars>>

\* No startup, no call of _determine_state and no BreakoutStrategy is modelled
NoStartup == [stage |-> "none"]
NoMarket == [stage |-> "none"]
NoBreakout == [stage |-> "none"]
NoStore == [stage |-> "none"]
NoFill == [stage |-> "none"]

LateIdle ==
    /\ startup = NoStartup
    /\ market = NoMarket
    /\ breakout_run = NoBreakout
    /\ store = NoStore
    /\ fill = NoFill

\* No rejected order, no run of start and no price history is modelled
NoRejection == [stage |-> "none"]
NoRun == [stage |-> "none"]
NoHistory == [stage |-> "none"]

\* No call of normalize_order_with_rules is modelled
NoOrder == [stage |-> "none"]

\* No call of equal_split_quote_allocation is modelled
NoAlloc == [stage |-> "none"]

\* No SMACrossoverStrategy is modelled
NoSma == [stage |-> "none", calls |-> 0]

\* No call of _make_request is modelled
NoRequest == [stage |-> "none"]

\* No sell signal is modelled at the exit gate
NoGate == [stage |-> "none"]

\* No tick of calculate_position_size is modelled
NoSizing == [stage |-> "none"]

\* No call of get_trade_actual_fee is modelled
NoFeePoll == [stage |-> "none"]

\* The functions checked on their own are not called, and the
\* strategy_switches table is as _create_tables leaves it
EarlyIdle ==
    /\ order = NoOrder
    /\ alloc = NoAlloc
    /\ sma = NoSma
    /\ request = NoRequest
    /\ strategy_switches = <<>>
    /\ gate = NoGate
    /\ sizing = NoSizing
    /\ fee_poll = NoFeePoll
    /\ rejection = NoRejection
    /\ bot_run = NoRun
    /\ history = NoHistory

UnitsIdle == EarlyIdle /\ LateIdle

NoExec ==
    [symbol |-> "none", signal |-> "none", placed |-> FALSE, success |-> FALSE,
     open_id |-> NoId, positions_before |-> 0, trades_before |-> 0]

NewWatch ==
    [state |-> "none", run |-> 0, before |-> NoStrategy, same |-> FALSE,
     switched |-> FALSE, switch_log |-> <<>>]

\* OHLCCache.__init__, for one pair
NewCache ==
    [candles |-> <<>>, since |-> NoTime,
     kept_last |-> FALSE]   \* history: the latest update stored the last row it got

\* The signals a strategy object can return: MeanReversionStrategy buys only
\* when it is not long and sells only when it is long
StrategySignals(tr) ==
    IF tr.strategy = NoStrategy THEN {"none"}
    ELSE IF tr.strategy = MeanReversionStrategy
    THEN IF tr.position = "long" THEN {"none", "sell"} ELSE {"none", "buy"}
    ELSE {"none", "buy", "sell"}

\* The first index from i on whose symbol has a signal, 0 when there is none
NextSignal(sig, i) ==
    LET with == {j \in DOMAIN trading_pairs : j >= i /\ sig[trading_pairs[j]] # "none"}
    IN  IF with = {} THEN 0 ELSE CHOOSE j \in with : \A k \in with : j <= k

Init ==
    /\ now = 0
    /\ bot \in {"MultiCoinBot", "AdaptiveBot"}
    /\ dry_run \in BOOLEAN
    /\ restarts = 0
    /\ pc = "idle"
    /\ idx = 0
    /\ signals = [s \in Symbols |-> "none"]
    /\ traders = [s \in Symbols |-> NewTrader(0)]
    /\ positions = <<>>
    /\ trades = <<>>
    /\ exchange_calls = {}
    /\ last_exec = NoExec
    /\ watch = NewWatch
    /\ ohlc_cache = NewCache
    /\ UnitsIdle

\* time.sleep(api_call_delay) at the end of an iteration
Sleep == now' = now + 1

\* run_iteration up to the analysis loop
StartIteration ==
    /\ bot = "MultiCoinBot"
    /\ pc = "idle"
    /\ now < MaxTime
    /\ pc' = "analyze"
    /\ idx' = 1
    /\ signals' = [s \in Symbols |-> "none"]
    /\ last_exec' = NoExec
    /\ UNCHANGED <<now, bot, dry_run, restarts, traders, positions, trades,
                   exchange_calls, watch, ohlc_cache, unit_vars>>

\* One turn of the analysis loop: trader.analyze for the symbol in turn
Analyze ==
    /\ pc = "analyze"
    /\ LET symbol == trading_pairs[idx]
           tr == traders[symbol]
       IN  \E state \in LoopStates :
            LET after == CoinTrader_analyze(tr, now, state)
            IN  \E signal \in StrategySignals(after) :
                 /\ signal = "buy" => Len(positions) < MaxPositions
                 /\ traders' = [traders EXCEPT ![symbol] = after]
                 /\ signals' = [signals EXCEPT ![symbol] = signal]
                 /\ IF idx < Len(trading_pairs)
                    THEN /\ idx' = idx + 1
                         /\ pc' = "analyze"
                         /\ now' = now
                    ELSE IF NextSignal(signals', 1) # 0
                    THEN /\ idx' = NextSignal(signals', 1)
                         /\ pc' = "execute"
                         /\ now' = now
                    ELSE /\ idx' = 0
                         /\ pc' = "idle"
                         /\ Sleep
    /\ UNCHANGED <<bot, dry_run, restarts, positions, trades, exchange_calls,
                   last_exec, watch, ohlc_cache, unit_vars>>

\* An exit gate that looks at the profit only
macd_gated_by_profit_only(position, current_price, t) ==
    LET entry_price == position.entry_price
        net_scaled == (current_price - entry_price) * FeeScale
                      - 2 * taker_fee * entry_price
    IN  net_scaled > 0 /\ net_scaled < min_profit_target * entry_price

\* The exit gate of run_iteration for a position opened by macd: TRUE when
\* the sell is held back
macd_gated(position, current_price, t) ==
    LET entry_price == position.entry_price
        hold_seconds == t - position.entry_time
        \* net_profit_pct > 0 and net_profit_pct < min_profit_target, times
        \* FeeScale * entry_price
        net_scaled == (current_price - entry_price) * FeeScale
                      - 2 * taker_fee * entry_price
    IN  /\ net_scaled > 0
        /\ \/ hold_seconds < min_hold_time
           \/ net_scaled < min_profit_target * entry_price

\* A place_order that goes to the exchange in every mode
place_order_calls_in_every_mode(dry, normalized) ==
    IF ~normalized THEN {[op |-> "normalize_order", dry_run |-> dry]}
    ELSE {[op |-> "normalize_order", dry_run |-> dry],
          [op |-> "add_order", dry_run |-> dry]}

\* MultiCoinBot.place_order: the client calls it makes.  In a live run
\* normalize_order and add_order can each raise.
place_order_calls(dry, normalized) ==
    IF dry THEN {}
    ELSE IF ~normalized THEN {[op |-> "normalize_order", dry_run |-> dry]}
    ELSE {[op |-> "normalize_order", dry_run |-> dry],
          [op |-> "add_order", dry_run |-> dry]}

\* MultiCoinBot.place_order: whether it reports success
place_order_success(dry, normalized, added) ==
    IF dry THEN TRUE ELSE normalized /\ added

\* The open position the execution loop works with: None when the lookup raises
looked_up(posns, symbol, lookup_ok) ==
    IF lookup_ok THEN get_open_position(posns, symbol) ELSE NoId

\* Whether the execution loop reaches place_order for this signal
reaches_order(posns, signal, open_row, position_size, current_price, t) ==
    /\ position_size > 0
    /\ ~(signal = "buy" /\ open_row # NoId)
    /\ ~(signal = "sell" /\ open_row = NoId)
    /\ ~(/\ signal = "sell"
         /\ open_row # NoId
         /\ Lower(posns[open_row].strategy) = macd
         /\ macd_gated(posns[open_row], current_price, t))

\* The recording of a fill: record_entry or record_exit, then the strategy's
\* update_position and update_signal
record_fill(tr, posns, trds, symbol, signal, price, size, fee, dry, t) ==
    LET rec == IF signal = "buy"
               THEN record_entry(tr, posns, trds, symbol, price, size, fee, dry, t)
               ELSE record_exit(tr, posns, trds, symbol, price, size, fee, dry)
    IN  [rec EXCEPT !.tr = [rec.tr EXCEPT
                                !.position = IF signal = "buy" THEN "long" ELSE "none",
                                !.last_signal = signal]]

\* Where the loop goes after the symbol at index i
Advance(i) ==
    IF NextSignal(signals, i + 1) # 0
    THEN /\ idx' = NextSignal(signals, i + 1)
         /\ pc' = "execute"
         /\ now' = now
    ELSE /\ idx' = 0
         /\ pc' = "idle"
         /\ Sleep

\* A turn of the execution loop that ends before place_order: the signal was
\* already acted upon, the ticker could not be fetched, the size is 0, or a
\* spot rule or the macd gate skips the order
ExecuteSkip ==
    /\ pc = "execute"
    /\ LET symbol == trading_pairs[idx]
           signal == signals[symbol]
           tr == traders[symbol]
       IN  /\ \/ tr.strategy # NoStrategy /\ signal = tr.last_signal
              \/ TRUE     \* get_market_data returned None
              \/ \E current_price \in Prices, lookup_ok \in BOOLEAN,
                    position_size \in PositionSizes :
                    ~reaches_order(positions, signal,
                                   looked_up(positions, symbol, lookup_ok),
                                   position_size, current_price, now)
           /\ last_exec' = [symbol |-> symbol, signal |-> signal,
                            placed |-> FALSE, success |-> FALSE,
                            open_id |-> get_open_position(positions, symbol),
                            positions_before |-> Len(positions),
                            trades_before |-> Len(trades)]
    /\ Advance(idx)
    /\ UNCHANGED <<bot, dry_run, restarts, signals, traders, positions, trades,
                   exchange_calls, watch, ohlc_cache, unit_vars>>

\* A turn of the execution loop that reaches place_order
ExecuteOrder ==
    /\ pc = "execute"
    /\ LET symbol == trading_pairs[idx]
           signal == signals[symbol]
           tr == traders[symbol]
       IN  /\ ~(tr.strategy # NoStrategy /\ signal = tr.last_signal)
           /\ \E current_price \in Prices, lookup_ok \in BOOLEAN,
                 position_size \in PositionSizes :
                /\ reaches_order(positions, signal,
                                 looked_up(positions, symbol, lookup_ok),
                                 position_size, current_price, now)
                /\ \E normalized \in (IF dry_run THEN {TRUE} ELSE BOOLEAN),
                      added \in (IF dry_run THEN {TRUE} ELSE BOOLEAN),
                      ledger_fee \in (IF dry_run THEN {0} ELSE LedgerFees) :
                     LET success == place_order_success(dry_run, normalized, added)
                         rec == record_fill(tr, positions, trades, symbol, signal,
                                            current_price, position_size,
                                            ledger_fee, dry_run, now)
                     IN  /\ exchange_calls' =
                                exchange_calls \cup place_order_calls(dry_run, normalized)
                         /\ IF success /\ tr.strategy # NoStrategy
                            THEN /\ traders' = [traders EXCEPT ![symbol] = rec.tr]
                                 /\ positions' = rec.positions
                                 /\ trades' = rec.trades
                            ELSE UNCHANGED <<traders, positions, trades>>
                         /\ last_exec' =
                                [symbol |-> symbol, signal |-> signal,
                                 placed |-> TRUE, success |-> success,
                                 open_id |-> get_open_position(positions, symbol),
                                 positions_before |-> Len(positions),
                                 trades_before |-> Len(trades)]
    /\ Advance(idx)
    /\ UNCHANGED <<bot, dry_run, restarts, signals, watch, ohlc_cache, unit_vars>>

(***************************************************************************)
(* AdaptiveBot: the single-instrument bot.  Its state is the record of the *)
(* one symbol in traders.                                                  *)
(***************************************************************************)
order_size == 1                 \* ORDER_SIZE
Volumes == {1, 2}               \* volumes place_order may report as spice_volume

\* AdaptiveBot.place_order: the client calls it makes
AdaptiveBot_place_order_calls(dry, normalized) ==
    IF dry THEN {}
    ELSE IF ~normalized THEN {[op |-> "normalize_order", dry_run |-> dry]}
    ELSE {[op |-> "normalize_order", dry_run |-> dry],
          [op |-> "add_order", dry_run |-> dry]}

\* AdaptiveBot.place_order: whether it returns a result
AdaptiveBot_place_order_result(dry, normalized, added) ==
    IF dry THEN TRUE ELSE normalized /\ added

AdaptiveBot_record_entry(tr, posns, trds, symbol, price, volume, fee, dry, t) ==
    LET entry_fee == IF fee > 0 THEN fee ELSE calculate_fee(price * volume)
        position_type == IF tr.position # "none" THEN tr.position ELSE "long"
        strategy_name == AdaptiveBot_strategy_names[tr.strategy]
        id == Len(posns) + 1
        noted == [tr EXCEPT !.entry_price = price, !.entry_volume = volume,
                            !.entry_fee = entry_fee]
    IN  IF tr.strategy = NoStrategy
        THEN [tr |-> noted, positions |-> posns, trades |-> trds]
        ELSE [tr |-> [noted EXCEPT !.current_position_id = id],
              positions |-> open_position(posns, symbol, strategy_name,
                                          position_type, price, volume,
                                          entry_fee, dry, t),
              trades |-> record_trade(trds, symbol, strategy_name, "entry",
                                      IF position_type = "long" THEN "buy" ELSE "sell",
                                      price, volume, entry_fee, position_type,
                                      id, dry)]

AdaptiveBot_record_exit(tr, posns, trds, symbol, price, volume, fee, dry) ==
    LET exit_fee == IF fee > 0 THEN fee ELSE calculate_fee(price * volume)
        position_type == IF tr.strategy # NoStrategy /\ tr.position = "long"
                         THEN "long" ELSE "short"
        strategy_name == AdaptiveBot_strategy_names[tr.strategy]
        reset == [tr EXCEPT !.entry_price = NoPrice, !.entry_fee = NoPrice,
                            !.entry_volume = NoPrice]
    IN  IF tr.entry_price = NoPrice
        THEN [tr |-> tr, positions |-> posns, trades |-> trds]
        ELSE IF tr.current_position_id = NoId
        THEN [tr |-> reset, positions |-> posns, trades |-> trds]
        ELSE [tr |-> [reset EXCEPT !.current_position_id = NoId],
              positions |-> close_position(posns, tr.current_position_id,
                                           price, volume, exit_fee),
              trades |-> record_trade(trds, symbol, strategy_name, "exit",
                                      IF position_type = "long" THEN "sell" ELSE "buy",
                                      price, volume, exit_fee, position_type,
                                      tr.current_position_id, dry)]

\* self.entry_volume or self.order_size
exit_volume_of(tr) ==
    IF tr.entry_volume = NoPrice \/ tr.entry_volume = 0 THEN order_size
    ELSE tr.entry_volume

\* The trade branch of run_strategy for a signal that is not the last one:
\* an open position of the other side is first recorded as left and an order
\* placed for it, then the order of the signal is placed and, when it gives a
\* result, the entry is recorded and the strategy updated.  fresh1 and fresh2
\* tell whether the ticker could be fetched for the two recordings.
run_strategy_trade(tr, posns, trds, symbol, signal, dry, t, fresh1, price1, normalized1, normalized2, added2, fresh2, price2, used_volume) ==
    LET side == IF signal = "buy" THEN "long" ELSE "short"
        other == IF signal = "buy" THEN "short" ELSE "long"
        closing == tr.position = other
        start == [tr |-> tr, positions |-> posns, trades |-> trds]
        left == IF closing /\ fresh1
                THEN AdaptiveBot_record_exit(tr, posns, trds, symbol, price1,
                                             exit_volume_of(tr), 0, dry)
                ELSE start
        calls1 == IF closing THEN AdaptiveBot_place_order_calls(dry, normalized1)
                  ELSE {}
        result == AdaptiveBot_place_order_result(dry, normalized2, added2)
        entered == IF fresh2
                   THEN AdaptiveBot_record_entry(left.tr, left.positions, left.trades,
                                                 symbol, price2, used_volume, 0, dry, t)
                   ELSE left
        done == IF result
                THEN [entered EXCEPT !.tr = [entered.tr EXCEPT !.position = side,
                                                               !.last_signal = signal]]
                ELSE left
    IN  [tr |-> done.tr, positions |-> done.positions, trades |-> done.trades,
         calls |-> calls1 \cup AdaptiveBot_place_order_calls(dry, normalized2),
         success |-> result]

\* The inputs of run_strategy_trade that the call does not read are held at one
\* value, so that each outcome is produced once
unread_inputs_fixed(tr, signal, dry, fresh1, price1, normalized1, normalized2, added2, fresh2, price2, used_volume) ==
    LET closing == tr.position = (IF signal = "buy" THEN "short" ELSE "long")
        result == AdaptiveBot_place_order_result(dry, normalized2, added2)
        price0 == CHOOSE p \in Prices : \A q \in Prices : p <= q
    IN  /\ ~closing => ~fresh1 /\ normalized1
        /\ ~fresh1 => price1 = price0
        /\ ~normalized2 => ~added2
        /\ ~result => ~fresh2
        /\ ~fresh2 => price2 = price0 /\ used_volume = order_size

\* One call of run_strategy that gets its market data
RunStrategy ==
    /\ bot = "AdaptiveBot"
    /\ now < MaxTime
    /\ LET symbol == trading_pairs[1]
           fed == update_price_history(traders[symbol])
       IN  \E state \in LoopStates :
            LET tr == analyze_and_update_strategy(
                          fed, now, state, AdaptiveBot_strategy_names[fed.strategy])
            IN  \E signal \in StrategySignals(tr) :
                 IF signal = "none" \/ signal = tr.last_signal
                 THEN /\ traders' = [traders EXCEPT ![symbol] = tr]
                      /\ last_exec' = NoExec
                      /\ UNCHANGED <<positions, trades, exchange_calls>>
                 ELSE /\ Len(positions) < MaxPositions
                      /\ \E fresh1 \in BOOLEAN, fresh2 \in BOOLEAN,
                            price1 \in Prices, price2 \in Prices,
                            normalized1 \in (IF dry_run THEN {TRUE} ELSE BOOLEAN),
                            normalized2 \in (IF dry_run THEN {TRUE} ELSE BOOLEAN),
                            added2 \in (IF dry_run THEN {TRUE} ELSE BOOLEAN),
                            used_volume \in Volumes :
                           \* an input that the call does not read has one value
                           /\ unread_inputs_fixed(tr, signal, dry_run, fresh1, price1,
                                                  normalized1, normalized2, added2,
                                                  fresh2, price2, used_volume)
                           /\ LET out == run_strategy_trade(
                                             tr, positions, trades, symbol, signal,
                                             dry_run, now, fresh1, price1,
                                             normalized1, normalized2, added2,
                                             fresh2, price2, used_volume)
                              IN  /\ traders' = [traders EXCEPT ![symbol] = out.tr]
                                  /\ positions' = out.positions
                                  /\ trades' = out.trades
                                  /\ exchange_calls' = exchange_calls \cup out.calls
                                  /\ last_exec' =
                                       [symbol |-> symbol, signal |-> signal,
                                        placed |-> TRUE, success |-> out.success,
                                        open_id |-> get_open_position(positions, symbol),
                                        positions_before |-> Len(positions),
                                        trades_before |-> Len(trades)]
    /\ Sleep
    /\ UNCHANGED <<bot, dry_run, restarts, pc, idx, signals, watch, ohlc_cache, unit_vars>>

\* A call of run_strategy whose get_market_data returns None
RunStrategyNoData ==
    /\ bot = "AdaptiveBot"
    /\ now < MaxTime
    /\ Sleep
    /\ UNCHANGED <<bot, dry_run, restarts, pc, idx, signals, traders, positions,
                   trades, exchange_calls, last_exec, watch, ohlc_cache, unit_vars>>

\* The process is stopped between two iterations (the stop flag ends the
\* loop after the iteration at hand) and started again, perhaps with another
\* DRY_RUN: the database persists, everything else is built anew
Restart ==
    /\ pc = "idle"
    /\ restarts < MaxRestarts
    /\ restarts' = restarts + 1
    /\ dry_run' \in BOOLEAN
    /\ pc' = "idle"
    /\ idx' = 0
    /\ signals' = [s \in Symbols |-> "none"]
    /\ traders' = [s \in Symbols |-> NewTrader(now)]
    /\ last_exec' = NoExec
    /\ UNCHANGED <<now, bot, positions, trades, exchange_calls, watch, ohlc_cache, unit_vars>>

Next ==
    \/ StartIteration
    \/ Analyze
    \/ ExecuteSkip
    \/ ExecuteOrder
    \/ RunStrategy
    \/ RunStrategyNoData
    \/ Restart

Spec == Init /\ [][Next]_vars

(***************************************************************************)
(* Properties of the multi-instrument loop (specification Spec).           *)
(***************************************************************************)
\* C1: in every reachable state of the loop each symbol has at most one
\* position row with status 'open'
C1_OneOpenPerSymbol ==
    bot = "MultiCoinBot"
    => \A s \in Symbols : Cardinality(OpenIds(positions, s)) <= 1

\* C2: when a sell was executed (place_order succeeded while the store held an
\* open position for the symbol), the step ends with that position closed in
\* the store and an exit trade that references it
C2_SellClosesPosition ==
    (/\ bot = "MultiCoinBot"
     /\ last_exec.signal = "sell"
     /\ last_exec.success
     /\ last_exec.open_id # NoId)
    => /\ positions[last_exec.open_id].status = "closed"
       /\ \E i \in DOMAIN trades :
            /\ trades[i].trade_type = "exit"
            /\ trades[i].position_id = last_exec.open_id

\* C6: run_iteration places no buy order for a symbol that has an open position
\* in the store, and no sell order for a symbol that has none
C6_SpotOrdersOnly ==
    (bot = "MultiCoinBot" /\ last_exec.placed)
    => /\ last_exec.signal = "buy" => last_exec.open_id = NoId
       /\ last_exec.signal = "sell" => last_exec.open_id # NoId

\* C7: every trade row with a position_id has the dry_run value of the position
\* row it references
C7_TradeDryRunMatchesPosition ==
    \A i \in DOMAIN trades :
        trades[i].position_id # NoId
        => /\ trades[i].position_id \in DOMAIN positions
           /\ trades[i].dry_run = positions[trades[i].position_id].dry_run

\* C7 happens: a live exit trade references its position, and the process runs
\* again in the other mode while a later position is open
C7_Witness ==
    /\ restarts > 0
    /\ \E i \in DOMAIN trades :
         /\ trades[i].trade_type = "exit"
         /\ trades[i].position_id # NoId
         /\ ~trades[i].dry_run
    /\ \E j \in DOMAIN positions :
         positions[j].status = "open" /\ positions[j].dry_run # dry_run

(***************************************************************************)
(* The strategy switcher of one controller on its own (CoinTrader or       *)
(* AdaptiveBot), over all market states and with calls that are one or two *)
(* ticks apart, for one run of the process.                                *)
(***************************************************************************)
\* The name the running program derives for a strategy object
get_strategy_name(b, class) ==
    IF b = "AdaptiveBot" THEN AdaptiveBot_strategy_names[class]
    ELSE CoinTrader_strategy_names[class]

\* History of a classification at tick t that reported state: run counts the
\* consecutive classifications of that state since the last switch for which
\* the selector returns another class than the running one (it saturates at
\* confirmations_required), same tells that the selector returns the running
\* class
Watched(w, before, after, t, state) ==
    LET differs == select_strategy(state) # before.strategy
        switched == after.switch_count # before.switch_count
        run == IF before.strategy = NoStrategy \/ ~differs THEN 0
               ELSE IF w.state = state /\ ~w.switched
               THEN IF w.run < confirmations_required THEN w.run + 1 ELSE w.run
               ELSE 1
    IN  [state |-> state, run |-> run, before |-> before.strategy,
         same |-> before.strategy # NoStrategy /\ ~differs,
         switched |-> switched,
         switch_log |-> IF switched THEN Append(w.switch_log, t) ELSE w.switch_log]

InitSwitch ==
    /\ now = 0
    /\ bot \in {"MultiCoinBot", "AdaptiveBot"}
    /\ dry_run = TRUE
    /\ restarts = 0
    /\ pc = "idle"
    /\ idx = 0
    /\ signals = [s \in Symbols |-> "none"]
    /\ traders = [s \in Symbols |-> NewTrader(0)]
    /\ positions = <<>>
    /\ trades = <<>>
    /\ exchange_calls = {}
    /\ last_exec = NoExec
    /\ watch = NewWatch
    /\ ohlc_cache = NewCache
    /\ UnitsIdle

\* One iteration of the controller: it feeds the price history and calls
\* analyze_and_update_strategy, which classifies the market when it is due
Observe ==
    /\ now < MaxSwitchTime
    /\ LET symbol == trading_pairs[1]
           fed == update_price_history(traders[symbol])
       IN  \E state \in MarketStates, d \in {1, 2} :
            LET after == analyze_and_update_strategy(
                             fed, now, state, get_strategy_name(bot, fed.strategy))
            IN  /\ traders' = [traders EXCEPT ![symbol] = after]
                /\ watch' = IF Classifies(fed, now)
                            THEN Watched(watch, fed, after, now, state)
                            ELSE watch
                /\ now' = now + d
    /\ UNCHANGED <<bot, dry_run, restarts, pc, idx, signals, positions, trades,
                   exchange_calls, last_exec, ohlc_cache, unit_vars>>

NextSwitch == Observe

SpecSwitch == InitSwitch /\ [][NextSwitch]_vars

(***************************************************************************)
(* Properties of the strategy switcher (specification SpecSwitch).         *)
(***************************************************************************)
Controller == traders[trading_pairs[1]]

\* C3: a switch happens only after at least confirmations_required consecutive
\* classifications of one market state whose recommended strategy differs from
\* the running one, and a classification whose recommended strategy is the
\* running one resets pending_state to null and pending_confirmations to 0
C3_SwitchOnlyAfterConfirmations ==
    /\ watch.switched => watch.run >= confirmations_required
    /\ watch.same => /\ Controller.pending_state = "none"
                     /\ Controller.pending_confirmations = 0

\* C4: the switches of one local calendar day never exceed
\* max_switches_per_day: switches_today is at most max_switches_per_day, and so
\* is the number of switches the controller performed on any one day
C4_DailySwitchLimit ==
    /\ Controller.switches_today <= max_switches_per_day
    /\ \A day \in 0..Day(MaxSwitchTime + 2) :
         Cardinality({i \in DOMAIN watch.switch_log :
                         Day(watch.switch_log[i]) = day}) <= max_switches_per_day

\* C4 happens: a switch was just performed that uses up the day's allowance
C4_Witness ==
    /\ watch.switched
    /\ Controller.switches_today = max_switches_per_day

\* C5: any two consecutive switches are at least switch_cooldown apart
C5_SwitchCooldown ==
    \A i \in DOMAIN watch.switch_log :
        i > 1 => watch.switch_log[i] - watch.switch_log[i - 1] >= switch_cooldown

\* C5 happens: a second switch was just performed, switch_cooldown after the first
C5_Witness ==
    /\ watch.switched
    /\ Len(watch.switch_log) >= 2
    /\ watch.switch_log[Len(watch.switch_log)]
         - watch.switch_log[Len(watch.switch_log) - 1] = switch_cooldown

(***************************************************************************)
(* Properties of both bots (specification Spec).                           *)
(***************************************************************************)
\* C9: a process whose DRY_RUN is true never calls add_order or
\* normalize_order, whichever bot it runs, and every row an execution of such a
\* process writes to the store carries dry_run = true
C9_DryRunPlacesNoOrder ==
    /\ \A call \in exchange_calls : ~call.dry_run
    /\ (dry_run /\ last_exec.symbol # "none")
       => /\ \A i \in DOMAIN positions :
                i > last_exec.positions_before => positions[i].dry_run
          /\ \A i \in DOMAIN trades :
                i > last_exec.trades_before => trades[i].dry_run

\* C9 happens: a dry-run process placed an order that succeeded and recorded the
\* fill as a position row and a trade row
C9_Witness ==
    /\ dry_run
    /\ last_exec.success
    /\ Len(positions) > last_exec.positions_before
    /\ Len(trades) > last_exec.trades_before

(***************************************************************************)
(* TradingDatabase.close_position on its own (specification SpecStore):    *)
(* the store holds one open row, of either type, that is then closed.      *)
(***************************************************************************)
StorePrices == {9900, 10000, 10100}
StoreVolumes == {1, 2}          \* the callers pass a volume above 0
StoreFees == {0, 26}

InitStore ==
    /\ now = 0
    /\ bot = "MultiCoinBot"
    /\ dry_run = TRUE
    /\ restarts = 0
    /\ pc = "idle"
    /\ idx = 0
    /\ signals = [s \in Symbols |-> "none"]
    /\ traders = [s \in Symbols |-> NewTrader(0)]
    /\ \E position_type \in {"long", "short"}, entry_price \in StorePrices,
          entry_volume \in StoreVolumes, entry_fee \in StoreFees :
         positions = open_position(<<>>, trading_pairs[1], macd, position_type,
                                   entry_price, entry_volume, entry_fee, TRUE, 0)
    /\ trades = <<>>
    /\ exchange_calls = {}
    /\ last_exec = NoExec
    /\ watch = NewWatch
    /\ ohlc_cache = NewCache
    /\ UnitsIdle

\* A call of close_position for the open row
ClosePosition ==
    /\ positions[1].status = "open"
    /\ \E exit_price \in StorePrices, exit_volume \in StoreVolumes,
          exit_fee \in StoreFees :
         positions' = close_position(positions, 1, exit_price, exit_volume, exit_fee)
    /\ UNCHANGED <<now, bot, dry_run, restarts, pc, idx, signals, traders, trades,
                   exchange_calls, last_exec, watch, ohlc_cache, unit_vars>>

NextStore == ClosePosition

SpecStore == InitStore /\ [][NextStore]_vars

Sign(x) == IF x > 0 THEN 1 ELSE IF x < 0 THEN 0 - 1 ELSE 0

\* C8: a closed position has total_fees = entry_fee + exit_fee and
\* net_pnl = gross_pnl - total_fees, and its gross_pnl has the sign of
\* exit_price - entry_price when it is long and of entry_price - exit_price
\* when it is short
C8_ClosedPositionPnl ==
    \A i \in DOMAIN positions :
        positions[i].status = "closed"
        => /\ positions[i].total_fees = positions[i].entry_fee + positions[i].exit_fee
           /\ positions[i].net_pnl = positions[i].gross_pnl - positions[i].total_fees
           /\ Sign(positions[i].gross_pnl) =
                IF positions[i].position_type = "long"
                THEN Sign(positions[i].exit_price - positions[i].entry_price)
                ELSE Sign(positions[i].entry_price - positions[i].exit_price)

\* C8 happens: a short position was closed above its entry price, with fees on
\* both sides
C8_Witness ==
    \E i \in DOMAIN positions :
        /\ positions[i].status = "closed"
        /\ positions[i].position_type = "short"
        /\ positions[i].exit_price > positions[i].entry_price
        /\ positions[i].gross_pnl < 0
        /\ positions[i].entry_fee > 0
        /\ positions[i].exit_fee > 0

(***************************************************************************)
(* OHLCCache for one pair (specification SpecOHLC).  A candle is its time   *)
(* and its close; a response of the exchange is any sequence of rows, in   *)
(* any order, with or without a last cursor.                               *)
(***************************************************************************)
maxlen == 3                     \* OHLCCache.maxlen
CandleTimes == {1, 2, 3, 4}
Closes == {1, 2}
LastValues == {NoTime, 2, 4}
ShortRow == [time |-> 0, close |-> 0, fields |-> 7]
Rows == {[time |-> t, close |-> c, fields |-> 8] : t \in CandleTimes, c \in Closes}
           \cup {ShortRow}
NoResponse == [rows |-> <<>>, last |-> NoTime, dict |-> FALSE]

\* _parse_ohlc_rows: the rows with fewer than 8 fields are left out
RECURSIVE parse_ohlc_rows(_)
parse_ohlc_rows(rows) ==
    IF rows = <<>> THEN <<>>
    ELSE LET rest == parse_ohlc_rows(Tail(rows))
         IN  IF Head(rows).fields < 8 THEN rest
             ELSE <<[time |-> Head(rows).time, close |-> Head(rows).close]>> \o rest

\* deque.append on a deque of at most maxlen elements
deque_append(dq, x) ==
    IF Len(dq) >= maxlen THEN Append(Tail(dq), x) ELSE Append(dq, x)

\* A merge step that appends a candle that is not older than the tail
merge_candle_appending(dq, candle) ==
    IF dq = <<>> \/ candle.time >= dq[Len(dq)].time
    THEN deque_append(dq, candle)
    ELSE dq

\* A merge step that leaves the tail alone when a candle of the same time comes
merge_candle_keeping_tail(dq, candle) ==
    IF dq = <<>> \/ candle.time > dq[Len(dq)].time
    THEN deque_append(dq, candle)
    ELSE dq

\* One turn of the merge loop of OHLCCache.update
merge_candle(dq, candle) ==
    IF dq = <<>> \/ candle.time > dq[Len(dq)].time
    THEN deque_append(dq, candle)
    ELSE IF candle.time = dq[Len(dq)].time
    THEN deque_append(SubSeq(dq, 1, Len(dq) - 1), candle)
    ELSE dq

RECURSIVE merge_candles(_, _)
merge_candles(dq, candles) ==
    IF candles = <<>> THEN dq
    ELSE merge_candles(merge_candle(dq, Head(candles)), Tail(candles))

\* The candles OHLCCache.update merges: the parsed rows without the last one
\* when there are two or more
committed_candles(rows) ==
    LET parsed == parse_ohlc_rows(rows)
    IN  IF Len(parsed) >= 2 THEN SubSeq(parsed, 1, Len(parsed) - 1) ELSE parsed

\* An update that takes the since cursor for a count of updates
OHLCCache_update_counting(cache, response) ==
    IF ~response.dict THEN cache
    ELSE [cache EXCEPT
            !.candles = merge_candles(cache.candles, committed_candles(response.rows)),
            !.since = IF cache.since = NoTime THEN 2 ELSE 4]

\* OHLCCache.update, given the response of client.get_ohlc
OHLCCache_update(cache, response) ==
    IF ~response.dict THEN cache
    ELSE [cache EXCEPT
            !.candles = merge_candles(cache.candles, committed_candles(response.rows)),
            !.since = IF response.last # NoTime THEN response.last ELSE cache.since]

\* OHLCCache.get_series: the time of 'latest', NoTime when the series is None
get_series_latest_time(cache) ==
    IF cache.candles = <<>> THEN NoTime
    ELSE cache.candles[Len(cache.candles)].time

\* History: whether the update that led from the candles before to the candles
\* after stored the last row of the response.  The last row reaches the merge
\* loop when it is well formed and no parsed candle was dropped, and it is then
\* the last candle merged, so it is stored when it is the new tail.
last_row_stored(before, response, after) ==
    /\ response.dict
    /\ response.rows # <<>>
    /\ LET rows == response.rows
           last_row == rows[Len(rows)]
       IN  /\ last_row.fields >= 8
           /\ Len(committed_candles(rows)) = Len(parse_ohlc_rows(rows))
           /\ before = <<>> \/ last_row.time >= before[Len(before)].time
           /\ after # <<>>
           /\ after[Len(after)] = [time |-> last_row.time, close |-> last_row.close]

\* The time of the newest well-formed row of a response, 0 when there is none
RECURSIVE newest_row_time(_)
newest_row_time(rows) ==
    IF rows = <<>> THEN 0
    ELSE LET rest == newest_row_time(Tail(rows))
         IN  IF Head(rows).time > rest THEN Head(rows).time ELSE rest

\* The sequences of at most n rows.  The exchange lists candles oldest first,
\* so a well-formed row is not older than the rows before it; a malformed row
\* can stand anywhere.
RECURSIVE RowSeqs(_)
RowSeqs(n) ==
    IF n = 0 THEN {<<>>}
    ELSE LET shorter == RowSeqs(n - 1)
         IN  shorter \cup
             UNION {{Append(rows, row) :
                        row \in {r \in Rows : r = ShortRow
                                                \/ r.time >= newest_row_time(rows)}} :
                    rows \in shorter}

Responses ==
    {NoResponse} \cup
    {[rows |-> rows, last |-> last, dict |-> TRUE] :
        rows \in RowSeqs(MaxRows), last \in LastValues}

InitOHLC ==
    /\ now = 0
    /\ bot = "MultiCoinBot"
    /\ dry_run = TRUE
    /\ restarts = 0
    /\ pc = "idle"
    /\ idx = 0
    /\ signals = [s \in Symbols |-> "none"]
    /\ traders = [s \in Symbols |-> NewTrader(0)]
    /\ positions = <<>>
    /\ trades = <<>>
    /\ exchange_calls = {}
    /\ last_exec = NoExec
    /\ watch = NewWatch
    /\ ohlc_cache = NewCache
    /\ UnitsIdle

\* A call of OHLCCache.update
Update ==
    /\ \E response \in Responses :
         LET after == OHLCCache_update(ohlc_cache, response)
         IN  ohlc_cache' =
                [after EXCEPT !.kept_last =
                    last_row_stored(ohlc_cache.candles, response, after.candles)]
    /\ UNCHANGED <<now, bot, dry_run, restarts, pc, idx, signals, traders,
                   positions, trades, exchange_calls, last_exec, watch, unit_vars>>

NextOHLC == Update

SpecOHLC == InitOHLC /\ [][NextOHLC]_vars

\* C10: the candles stored for a pair have strictly increasing times, so no two
\* of them share a time
C10_CandleTimesIncrease ==
    \A i \in DOMAIN ohlc_cache.candles :
        i > 1 => ohlc_cache.candles[i - 1].time < ohlc_cache.candles[i].time

\* C10 happens: updates have filled the cache to maxlen candles and moved the
\* since cursor
C10_Witness ==
    /\ Len(ohlc_cache.candles) = maxlen
    /\ ohlc_cache.since # NoTime

\* C11: OHLCCache.update never stores the last row of a response (the candle
\* the exchange has not committed yet), whatever the number of rows
C11_LastRowNeverStored ==
    ~ohlc_cache.kept_last

\* The series of the example: times 100, 200, 400, 500 are 1, 2, 3, 4
ExampleBefore == <<[time |-> 1, close |-> 1], [time |-> 2, close |-> 1]>>
ExampleRows ==
    <<[time |-> 2, close |-> 2, fields |-> 8], [time |-> 3, close |-> 1, fields |-> 8],
      [time |-> 4, close |-> 1, fields |-> 8]>>
ExampleAfter ==
    <<[time |-> 1, close |-> 1], [time |-> 2, close |-> 2], [time |-> 3, close |-> 1]>>

\* C12: in the merge a candle newer than the stored tail is appended, a candle
\* of the tail's time replaces the tail and an older candle changes nothing;
\* the cache holding [100, 200] fed [200 (updated), 400, 500] holds
\* [100, 200 (updated), 400] and its latest time is 400
C12_MergeByTimestamp ==
    /\ \A row \in Rows \ {ShortRow} :
         LET dq == ohlc_cache.candles
             candle == [time |-> row.time, close |-> row.close]
             merged == merge_candle(dq, candle)
         IN  IF dq = <<>>
             THEN merged = <<candle>>
             ELSE IF candle.time > dq[Len(dq)].time
             THEN /\ merged[Len(merged)] = candle
                  /\ SubSeq(merged, 1, Len(merged) - 1)
                       = (IF Len(dq) >= maxlen THEN Tail(dq) ELSE dq)
             ELSE IF candle.time = dq[Len(dq)].time
             THEN merged = [dq EXCEPT ![Len(dq)] = candle]
             ELSE merged = dq
    /\ ohlc_cache.candles = ExampleBefore
       => LET after == OHLCCache_update(
                           ohlc_cache,
                           [rows |-> ExampleRows, last |-> 4, dict |-> TRUE])
          IN  /\ after.candles = ExampleAfter
              /\ get_series_latest_time(after) = 3

\* C12 happens: the cache of the example was fed the response of the example
C12_Witness ==
    /\ ohlc_cache.candles = ExampleAfter
    /\ ohlc_cache.since = 4
    /\ ~ohlc_cache.kept_last

\* C13: feeding the cache the same response twice in a row leaves the stored
\* candles and the since cursor as feeding it once does
C13_RefeedingChangesNothing ==
    \A response \in Responses :
        LET once == OHLCCache_update(ohlc_cache, response)
            twice == OHLCCache_update(once, response)
        IN  twice.candles = once.candles /\ twice.since = once.since

\* C13 happens: a cache that holds candles and for which some response, fed
\* once, replaces the tail and moves the cursor
C13_Witness ==
    /\ Len(ohlc_cache.candles) >= 2
    /\ \E response \in Responses :
         LET once == OHLCCache_update(ohlc_cache, response)
         IN  /\ once.candles # ohlc_cache.candles
             /\ Len(once.candles) = Len(ohlc_cache.candles)
             /\ once.since # ohlc_cache.since

(***************************************************************************)
(* KrakenClient.normalize_order_with_rules on its own (specification       *)
(* SpecNormalize).  A Decimal is an integer count of its smallest unit: a  *)
(* volume counts 10^-VolumeDecimals, a price, a tick size and a minimum    *)
(* cost count 10^-PriceDecimals.  Decimal(str(x)) of a float x that was    *)
(* written with at most 15 significant digits is the number written, and   *)
(* float() of such a Decimal is read back by str() as the same number, so  *)
(* the conversions keep the count.  A rule the exchange did not give is    *)
(* Absent.                                                                 *)
(***************************************************************************)
VolumeDecimals == 5
PriceDecimals == 2
Absent == 0 - 1

RECURSIVE Pow10(_)
Pow10(n) == IF n = 0 THEN 1 ELSE 10 * Pow10(n - 1)

\* Division of Decimals by //: the quotient is truncated toward zero
TruncDiv(a, b) == IF a >= 0 THEN a \div b ELSE 0 - ((0 - a) \div b)

\* A quantize that rounds half up instead of down
round_half_up_decimal(value, decimals, scale) ==
    IF decimals < 0 \/ decimals >= scale THEN value
    ELSE LET quant == Pow10(scale - decimals)
         IN  TruncDiv(value + quant \div 2, quant) * quant

\* KrakenClient._round_down_decimal, for a value that counts 10^-scale
round_down_decimal(value, decimals, scale) ==
    IF decimals < 0 \/ decimals >= scale THEN value
    ELSE LET quant == Pow10(scale - decimals)
         IN  TruncDiv(value, quant) * quant

\* KrakenClient._round_down_to_tick
round_down_to_tick(value, tick_size) ==
    IF tick_size <= 0 THEN value
    ELSE TruncDiv(value, tick_size) * tick_size

\* A cost estimate that always takes the ticker's price
price_for_cost_of_ticker(normalized_price, current_price) == current_price

\* The price the cost is estimated with
price_for_cost(normalized_price, current_price) ==
    IF normalized_price # NoPrice THEN normalized_price ELSE current_price

Rejected(error) == [ok |-> FALSE, error |-> error, volume |-> 0, price |-> NoPrice]

normalize_order_with_rules(rules, ordertype, volume, price, current_price) ==
    LET volume_dec == round_down_decimal(volume, rules.lot_decimals, VolumeDecimals)
        limit == price # NoPrice /\ ordertype # "market"
        ticked == IF rules.tick_size # Absent
                  THEN round_down_to_tick(price, rules.tick_size)
                  ELSE price
        price_dec == round_down_decimal(ticked, rules.pair_decimals, PriceDecimals)
        normalized_price == IF limit THEN price_dec ELSE NoPrice
        estimate == price_for_cost(normalized_price, current_price)
    IN  IF volume_dec <= 0 THEN Rejected("volume rounds to 0")
        ELSE IF rules.ordermin # Absent /\ volume_dec < rules.ordermin
        THEN Rejected("below ordermin")
        ELSE IF limit /\ price_dec <= 0 THEN Rejected("price rounds to 0")
        ELSE IF /\ rules.costmin # Absent
                /\ estimate # NoPrice
                /\ volume_dec * estimate < rules.costmin * Pow10(VolumeDecimals)
        THEN Rejected("below costmin")
        ELSE [ok |-> TRUE, error |-> "none", volume |-> volume_dec,
              price |-> normalized_price]

\* The rules of a pair, and the orders fed to the function
PairRules ==
    [lot_decimals : {3, 4, 8}, pair_decimals : {1, 2}, tick_size : {Absent, 0, 5, 25},
     ordermin : {Absent, 1000, 10000}, costmin : {Absent, 1000}]
OrderTypes == {"limit", "market"}
OrderVolumes == {0, 5, 5000, 9990, 10099}
LimitPrices == {NoPrice, 0 - 7, 3, 80, 10000, 10003}
TickerPrices == {NoPrice, 10000, 10003}

NoResult == [ok |-> FALSE, error |-> "not called", volume |-> 0, price |-> NoPrice]

LoopIdle ==
    /\ now = 0
    /\ bot = "MultiCoinBot"
    /\ dry_run = TRUE
    /\ restarts = 0
    /\ pc = "idle"
    /\ idx = 0
    /\ signals = [s \in Symbols |-> "none"]
    /\ traders = [s \in Symbols |-> NewTrader(0)]
    /\ positions = <<>>
    /\ trades = <<>>
    /\ exchange_calls = {}
    /\ last_exec = NoExec
    /\ watch = NewWatch
    /\ ohlc_cache = NewCache

InitNormalize ==
    /\ LoopIdle
    /\ LateIdle
    /\ alloc = NoAlloc
    /\ sma = NoSma
    /\ request = NoRequest
    /\ strategy_switches = <<>>
    /\ gate = NoGate
    /\ sizing = NoSizing
    /\ fee_poll = NoFeePoll
    /\ rejection = NoRejection
    /\ bot_run = NoRun
    /\ history = NoHistory
    /\ \E rules \in PairRules, ordertype \in OrderTypes, volume \in OrderVolumes,
          price \in LimitPrices, current_price \in TickerPrices :
         order = [stage |-> "input", rules |-> rules, ordertype |-> ordertype,
                  volume |-> volume, price |-> price, current_price |-> current_price,
                  first |-> NoResult, second |-> NoResult]

\* The call of normalize_order_with_rules with the order
Normalize ==
    /\ order.stage = "input"
    /\ order' = [order EXCEPT
                    !.stage = "once",
                    !.first = normalize_order_with_rules(
                                  order.rules, order.ordertype, order.volume,
                                  order.price, order.current_price)]
    /\ UNCHANGED <<loop_vars, late_vars, alloc, sma, request, strategy_switches,
                   gate, sizing, fee_poll,
                   rejection, bot_run, history>>

\* A second call, with the volume and the price the first call returned
Renormalize ==
    /\ order.stage = "once"
    /\ order.first.ok
    /\ order' = [order EXCEPT
                    !.stage = "twice",
                    !.second = normalize_order_with_rules(
                                   order.rules, order.ordertype, order.first.volume,
                                   order.first.price, order.current_price)]
    /\ UNCHANGED <<loop_vars, late_vars, alloc, sma, request, strategy_switches,
                   gate, sizing, fee_poll,
                   rejection, bot_run, history>>

NextNormalize == Normalize \/ Renormalize

SpecNormalize == InitNormalize /\ [][NextNormalize]_vars

\* C14: normalizing the volume and the price that normalize_order_with_rules
\* returned, under the same rules, succeeds and returns exactly them
C14_NormalizeIdempotent ==
    order.stage = "twice" => order.second = order.first

\* The greatest multiple of a unit that does not exceed a positive value
FloorTo(value, unit) ==
    CHOOSE m \in 0..value : /\ m % unit = 0
                            /\ m <= value
                            /\ m + unit > value

\* The rules and the order of the example
ExampleRules ==
    [lot_decimals |-> 4, pair_decimals |-> 2, tick_size |-> 5, ordermin |-> 1000,
     costmin |-> 1000]

\* C15: the volume returned is the volume rounded toward zero to lot_decimals
\* decimals, and the price returned for a limit order is the price floored to
\* the greatest multiple of tick_size not above it and then floored to
\* pair_decimals decimals; 0.10099 at 100.03 under the rules of the example
\* gives 0.1009 at 100.00
C15_RoundsDown ==
    /\ order.stage = "once" /\ order.first.ok
       => LET rules == order.rules
              lot == IF rules.lot_decimals >= VolumeDecimals THEN 1
                     ELSE Pow10(VolumeDecimals - rules.lot_decimals)
              pip == IF rules.pair_decimals >= PriceDecimals THEN 1
                     ELSE Pow10(PriceDecimals - rules.pair_decimals)
              tick == IF rules.tick_size = Absent \/ rules.tick_size <= 0 THEN 1
                      ELSE rules.tick_size
          IN  /\ order.first.volume = FloorTo(order.volume, lot)
              /\ IF order.ordertype = "limit" /\ order.price # NoPrice
                 THEN order.first.price = FloorTo(FloorTo(order.price, tick), pip)
                 ELSE order.first.price = NoPrice
    /\ /\ order.stage = "once"
       /\ order.rules = ExampleRules
       /\ order.ordertype = "limit"
       /\ order.volume = 10099
       /\ order.price = 10003
       => order.first.ok /\ order.first.volume = 10090 /\ order.first.price = 10000

\* C15 happens: the order of the example was normalized
C15_Witness ==
    /\ order.stage = "once"
    /\ order.rules = ExampleRules
    /\ order.ordertype = "limit"
    /\ order.volume = 10099
    /\ order.price = 10003
    /\ order.first.volume = 10090
    /\ order.first.price = 10000

\* C16: the order is rejected when the floored volume is zero or below
\* ordermin, when the limit price floors to zero, and when the floored volume
\* times the price for the cost is below costmin, the price for the cost being
\* the normalized limit price if there is one and current_price otherwise
C16_Rejects ==
    order.stage = "once"
    => LET rules == order.rules
           volume_norm == round_down_decimal(order.volume, rules.lot_decimals,
                                             VolumeDecimals)
           limit == order.ordertype = "limit" /\ order.price # NoPrice
           price_norm ==
               round_down_decimal(
                   IF rules.tick_size = Absent THEN order.price
                   ELSE round_down_to_tick(order.price, rules.tick_size),
                   rules.pair_decimals, PriceDecimals)
           cost_price == IF limit THEN price_norm ELSE order.current_price
       IN  (\/ volume_norm = 0
            \/ rules.ordermin # Absent /\ volume_norm < rules.ordermin
            \/ limit /\ price_norm = 0
            \/ /\ rules.costmin # Absent
               /\ cost_price # NoPrice
               /\ volume_norm * cost_price < rules.costmin * Pow10(VolumeDecimals))
           => ~order.first.ok

\* C16 happens: a limit order whose volume and price pass was rejected for its
\* cost, estimated with a normalized price that differs from the ticker's
C16_Witness ==
    /\ order.stage = "once"
    /\ order.ordertype = "limit"
    /\ order.price = 80
    /\ order.current_price = 10000
    /\ order.first.error = "below costmin"

(***************************************************************************)
(* equal_split_quote_allocation on its own (specification SpecAllocation). *)
(* The balance is a whole amount of the quote currency and the percentages *)
(* are whole percents.  The amount returned is the exact quotient          *)
(* num / den, in 1/10000 of the quote currency, which the floats of the    *)
(* code approximate.                                                       *)
(***************************************************************************)
Min(a, b) == IF a <= b THEN a ELSE b
Max(a, b) == IF a >= b THEN a ELSE b

Zero == [num |-> 0, den |-> 1]

\* An allocation that takes the percentages as they come
equal_split_unclamped(quote_balance, num_coins, fee_buffer_pct, exposure_pct) ==
    IF quote_balance <= 0 \/ num_coins <= 0 THEN Zero
    ELSE IF exposure_pct <= 0 \/ fee_buffer_pct >= 100 THEN Zero
    ELSE LET usable_value == quote_balance * exposure_pct * (100 - fee_buffer_pct)
         IN  IF usable_value <= 0 THEN Zero
             ELSE [num |-> usable_value, den |-> num_coins]

equal_split_quote_allocation(quote_balance, num_coins, fee_buffer_pct, exposure_pct) ==
    IF quote_balance <= 0 THEN Zero
    ELSE IF num_coins <= 0 THEN Zero
    ELSE LET exposure == Max(0, Min(exposure_pct, 100))
             fee_buffer == Max(0, Min(fee_buffer_pct, 100))
             \* usable_value, in 1/10000 of the quote currency
             usable_value == quote_balance * exposure * (100 - fee_buffer)
         IN  IF exposure <= 0 THEN Zero
             ELSE IF fee_buffer >= 100 THEN Zero
             ELSE IF usable_value <= 0 THEN Zero
             ELSE [num |-> usable_value, den |-> num_coins]

QuoteBalances == {0 - 10, 0, 100, 1000}
CoinCounts == {0 - 1, 0, 2, 3, 4}
Percents == {0 - 5, 0, 1, 75, 100, 150}

InitAllocation ==
    /\ LoopIdle
    /\ LateIdle
    /\ order = NoOrder
    /\ sma = NoSma
    /\ request = NoRequest
    /\ strategy_switches = <<>>
    /\ gate = NoGate
    /\ sizing = NoSizing
    /\ fee_poll = NoFeePoll
    /\ rejection = NoRejection
    /\ bot_run = NoRun
    /\ history = NoHistory
    /\ \E quote_balance \in QuoteBalances, num_coins \in CoinCounts,
          fee_buffer_pct \in Percents, exposure_pct \in Percents :
         alloc = [stage |-> "input", quote_balance |-> quote_balance,
                  num_coins |-> num_coins, fee_buffer_pct |-> fee_buffer_pct,
                  exposure_pct |-> exposure_pct, result |-> Zero]

\* The call of equal_split_quote_allocation
Allocate ==
    /\ alloc.stage = "input"
    /\ alloc' = [alloc EXCEPT
                    !.stage = "returned",
                    !.result = equal_split_quote_allocation(
                                   alloc.quote_balance, alloc.num_coins,
                                   alloc.fee_buffer_pct, alloc.exposure_pct)]
    /\ UNCHANGED <<loop_vars, late_vars, order, sma, request, strategy_switches,
                   gate, sizing, fee_poll,
                   rejection, bot_run, history>>

NextAllocation == Allocate

SpecAllocation == InitAllocation /\ [][NextAllocation]_vars

\* C17: equal_split_quote_allocation returns 0 when the balance or the number
\* of coins is not positive, when the clamped fee buffer is 100 or more or the
\* clamped exposure is 0 or less, and otherwise
\* balance * exposure/100 * (1 - fee_buffer/100) / num_coins with both
\* percentages clamped to [0, 100]; 1000 over 3 coins at 1% and 100% gives 330
\* and 1000 over 4 coins at 1% and 75% gives 185.625
C17_EqualSplit ==
    /\ alloc.stage = "returned"
       => LET fee == IF alloc.fee_buffer_pct < 0 THEN 0
                     ELSE IF alloc.fee_buffer_pct > 100 THEN 100
                     ELSE alloc.fee_buffer_pct
              exposure == IF alloc.exposure_pct < 0 THEN 0
                          ELSE IF alloc.exposure_pct > 100 THEN 100
                          ELSE alloc.exposure_pct
              result == alloc.result
          IN  IF \/ alloc.quote_balance <= 0
                 \/ alloc.num_coins <= 0
                 \/ fee >= 100
                 \/ exposure <= 0
              THEN result.num = 0
              ELSE \* result = balance * exposure/100 * (100 - fee)/100 / num_coins
                   /\ result.den > 0
                   /\ result.num * alloc.num_coins
                        = alloc.quote_balance * exposure * (100 - fee) * result.den
    /\ LET basic == equal_split_quote_allocation(1000, 3, 1, 100)
           partial == equal_split_quote_allocation(1000, 4, 1, 75)
       IN  /\ basic.num = 330 * FeeScale * basic.den
           /\ partial.num = 1856250 * partial.den     \* 185.625 in 1/10000

\* C17 happens: an allocation was computed from percentages that had to be
\* clamped, and it is not zero
C17_Witness ==
    /\ alloc.stage = "returned"
    /\ alloc.exposure_pct > 100
    /\ alloc.fee_buffer_pct < 0
    /\ alloc.result.num > 0

(***************************************************************************)
(* SMACrossoverStrategy on its own (specification SpecSma), configured as  *)
(* the test of the strategy configures it: periods 3 and 5, the trend      *)
(* filter off, MIN_PROFIT_TARGET 0 and MIN_HOLD_TIME 0 (so that no hold    *)
(* time is too short).  market_data is the close series of market_data's   *)
(* 'ohlc' (empty when there is none) and the last price of its 'ticker'    *)
(* (NoPrice when the ticker is empty).  An average is kept as the sum of   *)
(* its window times the period of the other average, which orders the two  *)
(* averages as the quotients do.                                           *)
(***************************************************************************)
MaxAnalyses == 6       \* calls of analyze

FAST_SMA_PERIOD == 3
SLOW_SMA_PERIOD == 5
HISTORY_SIZE == 5
sma_min_profit_target == 0

RECURSIVE SumSeq(_)
SumSeq(seq) == IF seq = <<>> THEN 0 ELSE Head(seq) + SumSeq(Tail(seq))

\* indicators.calculate_sma, times `times`; NoPrice when the prices are too few
calculate_sma(prices, period, times) ==
    IF Len(prices) < period THEN NoPrice
    ELSE SumSeq(SubSeq(prices, Len(prices) - period + 1, Len(prices))) * times

\* TradingStrategy.add_price: an append to deque(maxlen=HISTORY_SIZE)
add_price(price_history, price) ==
    IF Len(price_history) >= HISTORY_SIZE
    THEN Append(Tail(price_history), price)
    ELSE Append(price_history, price)

\* SMACrossoverStrategy.__init__
NewSma ==
    [stage |-> "ready", price_history |-> <<>>, prev_fast_sma |-> NoPrice,
     prev_slow_sma |-> NoPrice, entry_price |-> NoPrice,
     calls |-> 0,                       \* history: the calls of analyze
     returned |-> "none",               \* history: what the latest call returned
     market_data |-> [closes |-> <<>>, ticker |-> NoPrice],        \* history
     market_data_before |-> [closes |-> <<>>, ticker |-> NoPrice]] \* history

\* SMACrossoverStrategy.analyze: the strategy it leaves, 'returned' included
SMACrossoverStrategy_analyze(st, market_data) ==
    LET called == [st EXCEPT !.calls = @ + 1,
                             !.market_data = market_data,
                             !.market_data_before = st.market_data,
                             !.returned = "none"]
    IN  IF market_data.ticker = NoPrice THEN called      \* no pair key
        ELSE
        LET current_price == market_data.ticker
            prices == add_price(st.price_history, current_price)
            fast_sma == calculate_sma(prices, FAST_SMA_PERIOD, SLOW_SMA_PERIOD)
            slow_sma == calculate_sma(prices, SLOW_SMA_PERIOD, FAST_SMA_PERIOD)
            crossing == st.prev_fast_sma # NoPrice /\ st.prev_slow_sma # NoPrice
            bullish == /\ crossing
                       /\ st.prev_fast_sma <= st.prev_slow_sma
                       /\ fast_sma > slow_sma
            bearish == /\ crossing
                       /\ ~bullish
                       /\ st.prev_fast_sma >= st.prev_slow_sma
                       /\ fast_sma < slow_sma
            \* profit_pct < min_profit_target, both sides times entry_price
            profit_too_low ==
                /\ st.entry_price # NoPrice
                /\ (current_price - st.entry_price) * FeeScale <
                       sma_min_profit_target * st.entry_price
            signal == IF bullish THEN "buy"
                      ELSE IF bearish /\ ~profit_too_low THEN "sell"
                      ELSE "none"
        IN  IF Len(prices) < SLOW_SMA_PERIOD
            THEN [called EXCEPT !.price_history = prices]
            ELSE [called EXCEPT
                    !.price_history = prices,
                    !.entry_price = IF signal = "buy" THEN current_price
                                    ELSE IF signal = "sell" THEN NoPrice
                                    ELSE @,
                    !.prev_fast_sma = fast_sma,
                    !.prev_slow_sma = slow_sma,
                    !.returned = signal]

\* The close series of the committed candles, and the last prices of a ticker
CloseSeries == {<<>>, <<10, 10, 10, 10, 10>>, <<10, 10, 10, 10, 10, 12>>}
TickerCloses == {NoPrice, 10, 12}

InitSma ==
    /\ LoopIdle
    /\ LateIdle
    /\ order = NoOrder
    /\ alloc = NoAlloc
    /\ sma = NewSma
    /\ request = NoRequest
    /\ strategy_switches = <<>>
    /\ gate = NoGate
    /\ sizing = NoSizing
    /\ fee_poll = NoFeePoll
    /\ rejection = NoRejection
    /\ bot_run = NoRun
    /\ history = NoHistory

\* A call of analyze
SmaAnalyze ==
    /\ sma.calls < MaxAnalyses
    /\ \E closes \in CloseSeries, ticker \in TickerCloses :
         sma' = SMACrossoverStrategy_analyze(sma, [closes |-> closes, ticker |-> ticker])
    /\ UNCHANGED <<loop_vars, late_vars, order, alloc, request, strategy_switches,
                   gate, sizing, fee_poll,
                   rejection, bot_run, history>>

NextSma == SmaAnalyze

SpecSma == InitSma /\ [][NextSma]_vars

\* Whether the fast average of a close series is above, and whether it is not
\* above, the slow one
FastAbove(closes) ==
    calculate_sma(closes, FAST_SMA_PERIOD, SLOW_SMA_PERIOD)
        > calculate_sma(closes, SLOW_SMA_PERIOD, FAST_SMA_PERIOD)

\* C18: given the committed closes in market_data and an empty ticker, analyze
\* returns null on the first call and buy on a later call whenever the fast
\* average of the previous call's closes was not above the slow one and the
\* fast average of this call's closes is above the slow one (closes
\* [10,10,10,10,10] and then [10,10,10,10,10,12], periods 3 and 5: null, buy)
C18_BuyOnCloseCrossover ==
    /\ sma.stage = "ready" /\ sma.calls = 1 /\ sma.market_data.ticker = NoPrice
       => sma.returned = "none"
    /\ /\ sma.stage = "ready"
       /\ sma.calls >= 2
       /\ sma.market_data.ticker = NoPrice
       /\ sma.market_data_before.ticker = NoPrice
       /\ Len(sma.market_data_before.closes) >= SLOW_SMA_PERIOD
       /\ Len(sma.market_data.closes) >= SLOW_SMA_PERIOD
       /\ ~FastAbove(sma.market_data_before.closes)
       /\ FastAbove(sma.market_data.closes)
       => sma.returned = "buy"

(***************************************************************************)
(* KrakenClient._make_request on its own (specification SpecRequest).  An  *)
(* attempt is one pass of the retry loop; what the exchange and the        *)
(* network answer to it is an input.                                       *)
(***************************************************************************)
max_retries == 3

\* The ways an attempt can end: a result, an error list in the body
\* (Exception), an HTTP error status or another RequestException, a ValueError
\* for the missing credentials, a Timeout, a ConnectionError
Answers == {"ok", "api_error", "http_error", "timeout", "connection_error"}
NonTransient == {"api_error", "http_error", "auth_error"}

\* A handler that also catches the error list of the body for a retry
caught_for_retry_with_api_errors(outcome) ==
    outcome \in {"timeout", "connection_error", "api_error"}

\* except (Timeout, ConnectionError)
caught_for_retry(outcome) == outcome \in {"timeout", "connection_error"}

RECURSIVE Pow2(_)
Pow2(n) == IF n = 0 THEN 1 ELSE 2 * Pow2(n - 1)

\* The call as the loop starts
NewRequest(private, has_credentials) ==
    [stage |-> "attempt", private |-> private, has_credentials |-> has_credentials,
     attempt |-> 0,
     sent |-> 0,           \* history: the HTTP requests sent
     outcomes |-> <<>>,    \* history: how each attempt ended
     sleeps |-> <<>>,      \* history: the backoff sleeps, in seconds
     error |-> "none"]     \* what was raised to the caller

\* The body of the try of one attempt, and the handler that follows it
make_request_attempt(req, answer) ==
    LET unsigned == req.private /\ ~req.has_credentials
        outcome == IF unsigned THEN "auth_error" ELSE answer
        tried == [req EXCEPT !.outcomes = Append(@, outcome),
                             !.sent = IF unsigned THEN @ ELSE @ + 1]
    IN  IF outcome = "ok" THEN [tried EXCEPT !.stage = "returned"]
        ELSE IF caught_for_retry(outcome) /\ req.attempt < max_retries - 1
        THEN [tried EXCEPT !.stage = "backoff"]
        ELSE [tried EXCEPT !.stage = "raised", !.error = outcome]

\* time.sleep(wait_time) and the next pass of the loop
make_request_backoff(req) ==
    [req EXCEPT !.stage = "attempt",
                !.sleeps = Append(@, Pow2(req.attempt + 1)),
                !.attempt = @ + 1]

InitRequest ==
    /\ LoopIdle
    /\ LateIdle
    /\ order = NoOrder
    /\ alloc = NoAlloc
    /\ sma = NoSma
    /\ strategy_switches = <<>>
    /\ gate = NoGate
    /\ sizing = NoSizing
    /\ fee_poll = NoFeePoll
    /\ rejection = NoRejection
    /\ bot_run = NoRun
    /\ history = NoHistory
    /\ \E private \in BOOLEAN, has_credentials \in BOOLEAN :
         request = NewRequest(private, has_credentials)

Attempt ==
    /\ request.stage = "attempt"
    /\ \E answer \in Answers : request' = make_request_attempt(request, answer)
    /\ UNCHANGED <<loop_vars, late_vars, order, alloc, sma, strategy_switches,
                   gate, sizing, fee_poll,
                   rejection, bot_run, history>>

Backoff ==
    /\ request.stage = "backoff"
    /\ request' = make_request_backoff(request)
    /\ UNCHANGED <<loop_vars, late_vars, order, alloc, sma, strategy_switches,
                   gate, sizing, fee_poll,
                   rejection, bot_run, history>>

NextRequest == Attempt \/ Backoff

SpecRequest == InitRequest /\ [][NextRequest]_vars

\* C19 as stated: a call that fails with a non-transient error (an error list
\* in the body, an auth error, an HTTP error status) was attempted exactly once
\* and no backoff sleep happened
C19_NonTransientAttemptedOnce ==
    request.stage = "raised" /\ request.error \in NonTransient
    => Len(request.outcomes) = 1 /\ request.sleeps = <<>>

\* C19, amended: the attempt that meets a non-transient error is the last of
\* the call: the error is raised to the caller at once, with no retry and no
\* backoff sleep after it, so a call whose first attempt meets it is attempted
\* exactly once and never sleeps.  (Attempts that timed out or lost the
\* connection before it were retried after their backoff sleeps.)
C19_NonTransientNotRetried ==
    request.stage # "none"
    => \A i \in DOMAIN request.outcomes :
         request.outcomes[i] \in NonTransient
         => /\ i = Len(request.outcomes)
            /\ request.stage = "raised"
            /\ request.error = request.outcomes[i]
            /\ Len(request.sleeps) = i - 1
            /\ \A j \in 1..(i - 1) :
                 request.outcomes[j] \in {"timeout", "connection_error"}

\* C19 happens: the exchange answered the first attempt of a signed call with
\* an error list, and the call raised
C19_Witness ==
    /\ request.stage = "raised"
    /\ request.private /\ request.has_credentials
    /\ request.outcomes = <<"api_error">>
    /\ request.sent = 1
    /\ request.sleeps = <<>>

(***************************************************************************)
(* The strategy_switches table.  TradingDatabase.record_strategy_switch is *)
(* the only code that inserts into it, and neither CoinTrader nor          *)
(* AdaptiveBot nor any other code of the engine calls it, so no action     *)
(* changes the table.                                                      *)
(***************************************************************************)
\* TradingDatabase.record_strategy_switch
record_strategy_switch(rows, symbol, from_strategy, to_strategy, market_state, confirmations, switches_today) ==
    Append(rows, [id |-> Len(rows) + 1, symbol |-> symbol,
                  from_strategy |-> from_strategy, to_strategy |-> to_strategy,
                  market_state |-> market_state,
                  confirmations_received |-> confirmations,
                  switches_today |-> switches_today])

\* The rows of the table for a symbol
SwitchRows(symbol) ==
    {i \in DOMAIN strategy_switches : strategy_switches[i].symbol = symbol}

\* C20: every switch of strategy performed for a symbol inserts exactly one
\* strategy_switches row for it, so the rows of a symbol are as many as the
\* switches performed for it
C20_OneRowPerSwitch ==
    Cardinality(SwitchRows(trading_pairs[1])) = Len(watch.switch_log)

\* C21: every switch replaces the running strategy by a strategy of another
\* kind: a classification whose recommended strategy is the kind that runs
\* starts no confirmation count, causes no switch and uses none of the day's
\* switches
C21_SwitchChangesKind ==
    /\ watch.switched => Controller.strategy # watch.before
    /\ watch.same => /\ ~watch.switched
                     /\ Controller.pending_confirmations = 0
                     /\ Controller.strategy = watch.before

(***************************************************************************)
(* The exit gate of run_iteration on its own (specification SpecGate): a   *)
(* sell signal for a symbol with an open position, at some price and some  *)
(* time after the entry.                                                   *)
(***************************************************************************)
GateStrategies == {macd, CoinTrader_strategy_names[MeanReversionStrategy]}
EntryPrices == {5000, 10000}
GatePrices == {4999, 5026, 5027, 5076, 9900, 10052, 10053, 10151, 10152, 10200}
HoldTimes == {0, 1, 2}

InitGate ==
    /\ LoopIdle
    /\ LateIdle
    /\ order = NoOrder
    /\ alloc = NoAlloc
    /\ sma = NoSma
    /\ request = NoRequest
    /\ strategy_switches = <<>>
    /\ sizing = NoSizing
    /\ fee_poll = NoFeePoll
    /\ rejection = NoRejection
    /\ bot_run = NoRun
    /\ history = NoHistory
    /\ \E strategy \in GateStrategies, entry_price \in EntryPrices :
         gate = [stage |-> "signal",
                 positions |-> open_position(<<>>, trading_pairs[1], strategy, "long",
                                             entry_price, 1, 0, TRUE, 0),
                 hold |-> 0, current_price |-> NoPrice, position_size |-> 0,
                 placed |-> FALSE]

\* The turn of the execution loop for the sell signal, up to place_order
GateSell ==
    /\ gate.stage = "signal"
    /\ \E current_price \in GatePrices, t \in HoldTimes, position_size \in PositionSizes :
         gate' = [gate EXCEPT
                    !.stage = "decided",
                    !.hold = t,
                    !.current_price = current_price,
                    !.position_size = position_size,
                    !.placed = reaches_order(
                                   gate.positions, "sell",
                                   get_open_position(gate.positions, trading_pairs[1]),
                                   position_size, current_price, t)]
    /\ UNCHANGED <<loop_vars, late_vars, order, alloc, sma, request, strategy_switches,
                   sizing, fee_poll,
                   rejection, bot_run, history>>

NextGate == GateSell

SpecGate == InitGate /\ [][NextGate]_vars

\* (current - entry) / entry - 2 * taker_fee, times FeeScale * entry
NetProfit(entry_price, current_price) ==
    (current_price - entry_price) * FeeScale - 2 * taker_fee * entry_price

RatLeq(a, b) == a.num * b.den <= b.num * a.den
RatMin(a, b) == IF RatLeq(a, b) THEN a ELSE b
RatAdd(a, b) ==
    IF a.den = b.den THEN [num |-> a.num + b.num, den |-> a.den]
    ELSE [num |-> a.num * b.den + b.num * a.den, den |-> a.den * b.den]

\* balance * pct / 100
PercentOf(balance, pct) == [num |-> balance * pct * 100, den |-> 1]

\* MultiCoinBot.calculate_position_size: the quote value of the size it returns
calculate_position_size(bot_config, current_price) ==
    LET max_coin_value == PercentOf(bot_config.account_balance, bot_config.max_position_pct)
        per_coin_value ==
            equal_split_quote_allocation(
                bot_config.account_balance, bot_config.num_pairs,
                bot_config.fee_buffer_pct, bot_config.max_total_exposure)
        remaining_exposure == bot_config.max_total_exposure - bot_config.total_exposure
        available_pct == Min(bot_config.max_position_pct, remaining_exposure)
        available_value == PercentOf(bot_config.account_balance, available_pct)
        position_value ==
            IF bot_config.position_sizing_mode = "equal"
            THEN RatMin(max_coin_value, per_coin_value)
            ELSE RatMin(max_coin_value, available_value)
    IN  IF bot_config.position_sizing_mode # "equal" /\ remaining_exposure <= 0
        THEN Zero
        ELSE IF current_price > 0 THEN position_value ELSE Zero

\* MultiCoinBot.__init__ and CoinTrader.__init__: the settings of the sizing.
\* total_exposure is set to 0 and no code changes it.
BotConfigs ==
    [position_sizing_mode : {"equal", "pct"}, account_balance : {0, 1000},
     max_total_exposure : {50, 75, 100}, max_per_coin : {10, 25},
     max_position_pct : {10, 25, 50}, fee_buffer_pct : {0, 1},
     num_pairs : {1, 2, 4}, total_exposure : {0}]

InitSizing ==
    /\ LoopIdle
    /\ LateIdle
    /\ order = NoOrder
    /\ alloc = NoAlloc
    /\ sma = NoSma
    /\ request = NoRequest
    /\ strategy_switches = <<>>
    /\ gate = NoGate
    /\ fee_poll = NoFeePoll
    /\ rejection = NoRejection
    /\ bot_run = NoRun
    /\ history = NoHistory
    /\ \E bot_config \in BotConfigs :
         sizing = [stage |-> "tick", config |-> bot_config, values |-> <<>>]

\* The call of calculate_position_size for the next pair of the tick
SizePosition ==
    /\ sizing.stage = "tick"
    /\ Len(sizing.values) < sizing.config.num_pairs
    /\ \E current_price \in {0, 100} :
         sizing' = [sizing EXCEPT
                      !.values = Append(@, calculate_position_size(sizing.config,
                                                                   current_price))]
    /\ UNCHANGED <<loop_vars, late_vars, order, alloc, sma, request, strategy_switches,
                   gate, fee_poll,
                   rejection, bot_run, history>>

SpecSizing == InitSizing /\ [][SizePosition]_vars

RECURSIVE RatSum(_)
RatSum(values) ==
    IF values = <<>> THEN Zero ELSE RatAdd(Head(values), RatSum(Tail(values)))

\* C23: the quote values that calculate_position_size allocates to the pairs
\* in one tick sum to at most account_balance * MAX_TOTAL_EXPOSURE / 100, in
\* the equal-split and in the percentage mode
C23_TotalExposureCap ==
    sizing.stage = "tick"
    => RatLeq(RatSum(sizing.values),
              PercentOf(sizing.config.account_balance, sizing.config.max_total_exposure))

\* C24: no position is sized above account_balance * MAX_PER_COIN / 100
C24_PerCoinCap ==
    sizing.stage = "tick"
    => \A i \in DOMAIN sizing.values :
         RatLeq(sizing.values[i],
                PercentOf(sizing.config.account_balance, sizing.config.max_per_coin))

(***************************************************************************)
(* A signal of an SMACrossoverStrategy that reaches MultiCoinBot.place_order *)
(* in a live run (specification SpecRejection).  Whether normalize_order   *)
(* accepts the order and whether add_order succeeds are inputs.            *)
(***************************************************************************)
\* CoinTrader.__init__ with an SMACrossoverStrategy selected and nothing bought
NewRejection ==
    [stage |-> "ready",
     strategy |-> NewSma,           \* the strategy's averages and entry tracking
     position |-> "none",           \* current_strategy.position
     last_signal |-> "none",        \* current_strategy.last_signal
     entry_price |-> NoPrice,       \* the trader's entry_price
     rows |-> 0,                    \* the position and trade rows written
     signal |-> "none",             \* the signal being executed
     before |-> [strategy_entry_price |-> NoPrice, position |-> "none",
                 last_signal |-> "none", entry_price |-> NoPrice, rows |-> 0],
     rejected |-> FALSE,            \* history: normalize_order raised
     calls |-> {}]                  \* history: the client calls of place_order

InitRejection ==
    /\ LoopIdle
    /\ LateIdle
    /\ order = NoOrder
    /\ alloc = NoAlloc
    /\ sma = NoSma
    /\ request = NoRequest
    /\ strategy_switches = <<>>
    /\ gate = NoGate
    /\ sizing = NoSizing
    /\ fee_poll = NoFeePoll
    /\ rejection = NewRejection
    /\ bot_run = NoRun
    /\ history = NoHistory

\* run_iteration, analysis loop: CoinTrader.analyze runs the strategy on the
\* ticker of the tick; a signal goes to the execution loop
RejectionAnalyze ==
    /\ rejection.stage = "ready"
    /\ rejection.strategy.calls < MaxAnalyses
    /\ \E ticker \in TickerCloses \ {NoPrice} :
         LET st == SMACrossoverStrategy_analyze(
                       rejection.strategy, [closes |-> <<>>, ticker |-> ticker])
         IN  rejection' =
               [rejection EXCEPT
                  !.strategy = st,
                  !.signal = st.returned,
                  !.stage = IF st.returned = "none" THEN "ready" ELSE "signal",
                  !.before = [strategy_entry_price |-> rejection.strategy.entry_price,
                              position |-> rejection.position,
                              last_signal |-> rejection.last_signal,
                              entry_price |-> rejection.entry_price,
                              rows |-> rejection.rows],
                  !.rejected = FALSE,
                  !.calls = {}]
    /\ UNCHANGED <<loop_vars, late_vars, order, alloc, sma, request, strategy_switches,
                   gate, sizing, fee_poll, bot_run, history>>

\* run_iteration, execution loop: the signal was already acted upon, or a
\* spot rule skips it (the store has an open position exactly when the
\* strategy is long)
RejectionSkip ==
    /\ rejection.stage = "signal"
    /\ \/ rejection.signal = rejection.last_signal
       \/ rejection.signal = "buy" /\ rejection.position = "long"
       \/ rejection.signal = "sell" /\ rejection.position # "long"
    /\ rejection' = [rejection EXCEPT !.stage = "ready"]
    /\ UNCHANGED <<loop_vars, late_vars, order, alloc, sma, request, strategy_switches,
                   gate, sizing, fee_poll, bot_run, history>>

\* run_iteration, execution loop: place_order and, when it succeeds, the
\* recording of the fill
RejectionOrder ==
    /\ rejection.stage = "signal"
    /\ rejection.signal # rejection.last_signal
    /\ rejection.signal = "buy" => rejection.position # "long"
    /\ rejection.signal = "sell" => rejection.position = "long"
    /\ \E normalized \in BOOLEAN, added \in BOOLEAN :
         LET success == place_order_success(FALSE, normalized, added)
         IN  rejection' =
               [rejection EXCEPT
                  !.stage = "ready",
                  !.rejected = ~normalized,
                  !.calls = place_order_calls(FALSE, normalized),
                  !.position = IF ~success THEN @
                               ELSE IF rejection.signal = "buy" THEN "long"
                               ELSE "none",
                  !.last_signal = IF success THEN rejection.signal ELSE @,
                  !.entry_price = IF success /\ rejection.signal = "buy"
                                  THEN rejection.strategy.market_data.ticker
                                  ELSE @,
                  !.rows = IF success THEN @ + 1 ELSE @]
    /\ UNCHANGED <<loop_vars, late_vars, order, alloc, sma, request, strategy_switches,
                   gate, sizing, fee_poll, bot_run, history>>

NextRejection == RejectionAnalyze \/ RejectionSkip \/ RejectionOrder

SpecRejection == InitRejection /\ [][NextRejection]_vars

\* C25: after normalize_order has rejected a live order, add_order was not
\* called, no position or trade row was written, and the trader's entry price
\* and the strategy's position, entry tracking and last_signal are what they
\* were before the signal
C25_RejectedOrderNoStateChange ==
    (rejection.stage = "ready" /\ rejection.rejected)
    => /\ [op |-> "add_order", dry_run |-> FALSE] \notin rejection.calls
       /\ rejection.rows = rejection.before.rows
       /\ rejection.entry_price = rejection.before.entry_price
       /\ rejection.position = rejection.before.position
       /\ rejection.last_signal = rejection.before.last_signal
       /\ rejection.strategy.entry_price = rejection.before.strategy_entry_price

(***************************************************************************)
(* MultiCoinBot.start and run_iteration with errors (specification         *)
(* SpecRun).  What each call made for a symbol does (returns or raises) is *)
(* an input; an error that no except clause of the coordinator handles     *)
(* leaves run_iteration and start.                                         *)
(***************************************************************************)
MaxIterations == 2     \* iterations of the loop of start

RunPairs == <<"XBTUSD", "ETHUSD", "SOLUSD">>      \* TRADING_PAIRS

NoError == [symbol |-> "none", step |-> "none"]

\* MultiCoinBot.start, at the first run_iteration
NewRun ==
    [stage |-> "analysis", iteration |-> 1, idx |-> 1,
     signals |-> <<>>,          \* the symbols with a signal, in the order found
     analysed |-> {},           \* history: symbols whose analysis turn has ended
     executed |-> {},           \* history: symbols whose execution turn has ended
     error |-> NoError]         \* history: the latest error raised for a symbol

\* What the turn of a symbol in the analysis loop can do: no data in the batch,
\* analyze returns None or a signal, or analyze raises (in the classification,
\* the creation of the strategy or the strategy's analysis)
AnalysisOutcomes == {"no_data", "none", "signal", "analysis_raises"}

\* What the turn of a symbol in the execution loop can do: end before the
\* order, place_order fails (its error is handled inside it), the fill is
\* recorded, or the recording raises (a write of the store)
ExecutionOutcomes == {"skipped", "order_raises", "recorded", "store_raises"}

\* The errors that an except clause of run_iteration or of a method it calls
\* handles: get_market_data, get_all_market_data, the open-position lookup,
\* the exit gate and place_order have one; trader.analyze, record_entry and
\* record_exit are called outside any try
handled_in_iteration(step) == step = "order_raises"

\* The while loop of start is in a try with except KeyboardInterrupt only
handled_in_start(step) == FALSE

\* where the loop of start goes once the analysis loop has ended
after_analysis(r) ==
    IF r.signals # <<>> THEN [r EXCEPT !.stage = "execution", !.idx = 1]
    ELSE [r EXCEPT !.stage = "sleep", !.idx = 0]

InitRun ==
    /\ LoopIdle
    /\ LateIdle
    /\ order = NoOrder
    /\ alloc = NoAlloc
    /\ sma = NoSma
    /\ request = NoRequest
    /\ strategy_switches = <<>>
    /\ gate = NoGate
    /\ sizing = NoSizing
    /\ fee_poll = NoFeePoll
    /\ rejection = NoRejection
    /\ bot_run = NewRun
    /\ history = NoHistory

\* run_iteration: the turn of one symbol in the analysis loop
RunAnalyze ==
    /\ bot_run.stage = "analysis"
    /\ \E outcome \in AnalysisOutcomes :
         LET symbol == RunPairs[bot_run.idx]
             turned == [bot_run EXCEPT
                          !.analysed = @ \cup {symbol},
                          !.signals = IF outcome = "signal" THEN Append(@, symbol)
                                      ELSE @,
                          !.idx = @ + 1]
         IN  bot_run' =
               IF outcome = "analysis_raises"
               THEN [bot_run EXCEPT
                       !.error = [symbol |-> symbol, step |-> outcome],
                       !.stage = IF handled_in_iteration(outcome)
                                    \/ handled_in_start(outcome)
                                 THEN @ ELSE "crashed"]
               ELSE IF bot_run.idx = Len(RunPairs) THEN after_analysis(turned)
               ELSE turned
    /\ UNCHANGED <<loop_vars, late_vars, order, alloc, sma, request, strategy_switches,
                   gate, sizing, fee_poll, rejection, history>>

\* run_iteration: the turn of one symbol in the execution loop
RunExecute ==
    /\ bot_run.stage = "execution"
    /\ \E outcome \in ExecutionOutcomes :
         LET symbol == bot_run.signals[bot_run.idx]
             raised == outcome \in {"order_raises", "store_raises"}
             caught == handled_in_iteration(outcome) \/ handled_in_start(outcome)
             turned == [bot_run EXCEPT
                          !.executed = @ \cup {symbol},
                          !.error = IF raised
                                    THEN [symbol |-> symbol, step |-> outcome]
                                    ELSE @,
                          !.idx = @ + 1]
         IN  bot_run' =
               IF raised /\ ~caught
               THEN [bot_run EXCEPT
                       !.error = [symbol |-> symbol, step |-> outcome],
                       !.stage = "crashed"]
               ELSE IF bot_run.idx = Len(bot_run.signals)
               THEN [turned EXCEPT !.stage = "sleep", !.idx = 0]
               ELSE turned
    /\ UNCHANGED <<loop_vars, late_vars, order, alloc, sma, request, strategy_switches,
                   gate, sizing, fee_poll, rejection, history>>

\* start: time.sleep(api_call_delay) and the next run_iteration
RunSleep ==
    /\ bot_run.stage = "sleep"
    /\ bot_run.iteration < MaxIterations
    /\ bot_run' = [NewRun EXCEPT !.iteration = bot_run.iteration + 1]
    /\ UNCHANGED <<loop_vars, late_vars, order, alloc, sma, request, strategy_switches,
                   gate, sizing, fee_poll, rejection, history>>

NextRun == RunAnalyze \/ RunExecute \/ RunSleep

SpecRun == InitRun /\ [][NextRun]_vars

\* C26: an error raised while a symbol is processed does not end the tick or
\* the loop: the loop never stops on it, and a tick that has come to its sleep
\* has given every symbol its analysis turn and every signal its execution turn
C26_SymbolErrorIsCaught ==
    /\ bot_run.stage # "crashed"
    /\ bot_run.stage = "sleep"
       => /\ bot_run.analysed = {RunPairs[i] : i \in DOMAIN RunPairs}
          /\ bot_run.executed = {bot_run.signals[i] : i \in DOMAIN bot_run.signals}

\* C27: the call of CoinTrader.analyze that selects the initial strategy (the
\* trader had none before it) returns no signal
C27_NoSignalOnInitialSelection ==
    [][\A i \in DOMAIN trading_pairs :
         (/\ bot = "MultiCoinBot"
          /\ pc = "analyze"
          /\ idx = i
          /\ traders[trading_pairs[i]].strategy = NoStrategy
          /\ traders'[trading_pairs[i]].strategy # NoStrategy)
         => signals'[trading_pairs[i]] = "none"]_vars

(***************************************************************************)
(* The close/high/low histories of a controller (specification             *)
(* SpecHistory).  market_data carries the ticker of the pair and, under    *)
(* 'ohlc', the series of the committed candles with its latest candle.     *)
(***************************************************************************)
NoData == [close |-> NoPrice, high |-> NoPrice, low |-> NoPrice]

\* The latest committed candle of the series (None when the cache is empty),
\* and the ticker of the pair: last trade price, high and low of today
LatestCandles == {NoData, [close |-> 10, high |-> 11, low |-> 9],
                  [close |-> 11, high |-> 12, low |-> 10]}
Tickers == {NoData, [close |-> 10, high |-> 11, low |-> 9],
            [close |-> 12, high |-> 15, low |-> 8]}

\* The three deques of a controller after the appends
append_prices(h, values) ==
    [h EXCEPT !.price_history = deque_append(@, values.close),
              !.high_history = deque_append(@, values.high),
              !.low_history = deque_append(@, values.low),
              !.appended = TRUE]

\* CoinTrader.analyze, its update of the histories
CoinTrader_update_price_history(h, market_data) ==
    IF market_data.ticker = NoData THEN h
    ELSE append_prices(h, market_data.ticker)

\* AdaptiveBot.update_price_history
AdaptiveBot_update_price_history(h, market_data) ==
    IF market_data.ohlc # NoData THEN append_prices(h, market_data.ohlc)
    ELSE IF market_data.ticker = NoData THEN h
    ELSE append_prices(h, market_data.ticker)

\* CoinTrader.__init__ / AdaptiveBot.__init__
NewHistory(controller) ==
    [stage |-> "ready", controller |-> controller,
     price_history |-> <<>>, high_history |-> <<>>, low_history |-> <<>>,
     appended |-> FALSE,        \* history: the latest call appended
     market_data |-> [ohlc |-> NoData, ticker |-> NoData]]     \* history

InitHistory ==
    /\ LoopIdle
    /\ LateIdle
    /\ order = NoOrder
    /\ alloc = NoAlloc
    /\ sma = NoSma
    /\ request = NoRequest
    /\ strategy_switches = <<>>
    /\ gate = NoGate
    /\ sizing = NoSizing
    /\ fee_poll = NoFeePoll
    /\ rejection = NoRejection
    /\ bot_run = NoRun
    /\ \E controller \in {"CoinTrader", "AdaptiveBot"} :
         history = NewHistory(controller)

\* An iteration of a CoinTrader
CoinTraderFeed ==
    /\ history.controller = "CoinTrader"
    /\ \E ohlc \in LatestCandles, ticker \in Tickers :
         LET market_data == [ohlc |-> ohlc, ticker |-> ticker]
         IN  history' = CoinTrader_update_price_history(
                            [history EXCEPT !.appended = FALSE,
                                            !.market_data = market_data],
                            market_data)
    /\ UNCHANGED <<loop_vars, late_vars, order, alloc, sma, request, strategy_switches,
                   gate, sizing, fee_poll, rejection, bot_run>>

\* An iteration of the AdaptiveBot
AdaptiveBotFeed ==
    /\ history.controller = "AdaptiveBot"
    /\ \E ohlc \in LatestCandles, ticker \in Tickers :
         LET market_data == [ohlc |-> ohlc, ticker |-> ticker]
         IN  history' = AdaptiveBot_update_price_history(
                            [history EXCEPT !.appended = FALSE,
                                            !.market_data = market_data],
                            market_data)
    /\ UNCHANGED <<loop_vars, late_vars, order, alloc, sma, request, strategy_switches,
                   gate, sizing, fee_poll, rejection, bot_run>>

NextHistory == CoinTraderFeed \/ AdaptiveBotFeed

SpecHistory == InitHistory /\ [][NextHistory]_vars

\* C28: what an iteration of a CoinTrader appends to its close, high and low
\* histories is the close, high and low of the latest committed candle of the
\* OHLC series of its market data
C28_HistoryFromCommittedCandle ==
    (/\ history.stage = "ready"
     /\ history.controller = "CoinTrader"
     /\ history.appended
     /\ history.market_data.ohlc # NoData)
    => /\ history.price_history[Len(history.price_history)]
            = history.market_data.ohlc.close
       /\ history.high_history[Len(history.high_history)]
            = history.market_data.ohlc.high
       /\ history.low_history[Len(history.low_history)]
            = history.market_data.ohlc.low

\* C29: a call of _make_request that raises a timeout or a connection error
\* to its caller has made the first attempt and three retries, with sleeps of
\* 2, 4 and 8 seconds before them; a call that has returned ended on an
\* attempt that succeeded, and no sleep is other than 2, 4, 8 in this order
C29_ThreeRetriesThenRaise ==
    /\ (request.stage = "raised" /\ request.error \in {"timeout", "connection_error"})
       => /\ Len(request.outcomes) = 1 + 3
          /\ request.sleeps = <<2, 4, 8>>
    /\ request.stage = "returned"
       => request.outcomes[Len(request.outcomes)] = "ok"
    /\ request.stage # "none"
       => \A i \in DOMAIN request.sleeps : request.sleeps[i] = <<2, 4, 8>>[i]

(***************************************************************************)
(* KrakenClient.get_trade_actual_fee and the recording of the fill         *)
(* (specification SpecLedger).  Time is in milliseconds since start_time;  *)
(* what a ledger query answers and how long it takes are inputs.           *)
(***************************************************************************)
max_wait_seconds == 10
wait_interval == 500        \* wait_interval = 0.5, in milliseconds

\* What query_ledgers gives for the txid: an entry whose refid is the txid,
\* with its fee (0 when the entry has none), no such entry, or an error
LedgerAnswers ==
    {[kind |-> "match", fee |-> 0], [kind |-> "match", fee |-> 30],
     [kind |-> "no_match", fee |-> 0], [kind |-> "raises", fee |-> 0]}

\* The time a ledger query takes, in milliseconds
QueryTimes == {0, 500, 4000}

\* A polling loop that goes on to the next query after an error
get_trade_actual_fee_retrying(fp, answer, query_time) ==
    IF fp.elapsed >= max_wait_seconds * 1000
    THEN [fp EXCEPT !.stage = "returned", !.fee = 0, !.why = "deadline"]
    ELSE LET polled == [fp EXCEPT !.polls = @ + 1,
                                  !.raised = @ \/ answer.kind = "raises"]
         IN  IF answer.kind = "match"
             THEN [polled EXCEPT !.stage = "returned", !.fee = answer.fee,
                                 !.why = "found"]
             ELSE [polled EXCEPT !.elapsed = @ + query_time + wait_interval]

\* get_trade_actual_fee: one pass of its while loop, the final return included
get_trade_actual_fee(fp, answer, query_time) ==
    IF fp.elapsed >= max_wait_seconds * 1000
    THEN [fp EXCEPT !.stage = "returned", !.fee = 0, !.why = "deadline"]
    ELSE LET polled == [fp EXCEPT !.polls = @ + 1,
                                  !.raised = @ \/ answer.kind = "raises"]
         IN  IF answer.kind = "match"
             THEN [polled EXCEPT !.stage = "returned", !.fee = answer.fee,
                                 !.why = "found"]
             ELSE IF answer.kind = "raises"
             THEN [polled EXCEPT !.stage = "returned", !.fee = 0, !.why = "error"]
             ELSE [polled EXCEPT !.elapsed = @ + query_time + wait_interval]

\* A live order that has been placed for the signal, before the fee lookup
NewFeePoll(signal, price, volume, tr, posns, trds) ==
    [stage |-> "polling", signal |-> signal,
     price |-> price,           \* current_price
     volume |-> volume,         \* position_size
     elapsed |-> 0,             \* time.time() - start_time
     polls |-> 0,               \* history: the ledger queries made
     raised |-> FALSE,          \* history: a ledger query raised
     fee |-> 0,                 \* what get_trade_actual_fee returned
     why |-> "none",            \* history: found, deadline or error
     tr |-> tr, positions |-> posns, trades |-> trds]

InitLedger ==
    /\ LoopIdle
    /\ LateIdle
    /\ order = NoOrder
    /\ alloc = NoAlloc
    /\ sma = NoSma
    /\ request = NoRequest
    /\ strategy_switches = <<>>
    /\ gate = NoGate
    /\ sizing = NoSizing
    /\ rejection = NoRejection
    /\ bot_run = NoRun
    /\ history = NoHistory
    /\ \E price \in Prices, volume \in PositionSizes \ {0} :
         LET fresh == NewStrategy(NewTrader(0), MeanReversionStrategy)
             bought == record_fill(fresh, <<>>, <<>>, trading_pairs[1], "buy",
                                   price, volume, 0, FALSE, 0)
         IN  \/ fee_poll = NewFeePoll("buy", price, volume, fresh, <<>>, <<>>)
             \/ fee_poll = NewFeePoll("sell", price, volume, bought.tr,
                                      bought.positions, bought.trades)

\* One pass of the loop of get_trade_actual_fee
LedgerPoll ==
    /\ fee_poll.stage = "polling"
    /\ \E answer \in LedgerAnswers, query_time \in QueryTimes :
         fee_poll' = get_trade_actual_fee(fee_poll, answer, query_time)
    /\ UNCHANGED <<loop_vars, late_vars, order, alloc, sma, request, strategy_switches,
                   gate, sizing, rejection, bot_run, history>>

\* run_iteration: record_entry or record_exit with the fee that came back
LedgerRecord ==
    /\ fee_poll.stage = "returned"
    /\ LET rec == record_fill(fee_poll.tr, fee_poll.positions, fee_poll.trades,
                              trading_pairs[1], fee_poll.signal, fee_poll.price,
                              fee_poll.volume, fee_poll.fee, FALSE, 0)
       IN  fee_poll' = [fee_poll EXCEPT !.stage = "recorded",
                                        !.tr = rec.tr,
                                        !.positions = rec.positions,
                                        !.trades = rec.trades]
    /\ UNCHANGED <<loop_vars, late_vars, order, alloc, sma, request, strategy_switches,
                   gate, sizing, rejection, bot_run, history>>

NextLedger == LedgerPoll \/ LedgerRecord

SpecLedger == InitLedger /\ [][NextLedger]_vars

\* The fee in the trade row and in the position row of the recorded fill
PersistedTradeFee == fee_poll.trades[Len(fee_poll.trades)].fee
PersistedPositionFee ==
    LET row == fee_poll.positions[Len(fee_poll.positions)]
    IN  IF fee_poll.signal = "buy" THEN row.entry_fee ELSE row.exit_fee

NewStopRun(kind, pairs) ==
    [stage |-> "analysis", kind |-> kind, pairs |-> pairs,
     running |-> TRUE, iteration |-> 1, idx |-> 1,
     orders |-> {},             \* history: pairs whose order was placed in the tick
     fills |-> {},              \* history: pairs whose fill was recorded in the tick
     interrupted |-> "none"]    \* history: the stage the stop signal came in

\* stop(): running becomes false and start returns
stop(r) == [r EXCEPT !.running = FALSE, !.stage = "stopped"]

\* The handler of start: KeyboardInterrupt raised in the given stage
handle_keyboard_interrupt(r) == stop([r EXCEPT !.interrupted = r.stage])

\* The turn of the next pair, or the sleep after the last one
next_pair(r) ==
    IF r.idx < Len(r.pairs) THEN [r EXCEPT !.stage = "analysis", !.idx = @ + 1]
    ELSE [r EXCEPT !.stage = "sleep", !.idx = 0]

InitStop ==
    /\ LoopIdle
    /\ LateIdle
    /\ order = NoOrder
    /\ alloc = NoAlloc
    /\ sma = NoSma
    /\ request = NoRequest
    /\ strategy_switches = <<>>
    /\ gate = NoGate
    /\ sizing = NoSizing
    /\ fee_poll = NoFeePoll
    /\ rejection = NoRejection
    /\ history = NoHistory
    /\ \/ bot_run = NewStopRun("MultiCoinBot", RunPairs)
       \/ bot_run = NewStopRun("AdaptiveBot", trading_pairs)

\* The analysis of a pair and the steps before its order: no signal, a signal
\* that is skipped, or a signal that goes to place_order
StopAnalyze ==
    /\ bot_run.stage = "analysis"
    /\ \E ordered \in BOOLEAN :
         bot_run' = IF ordered THEN [bot_run EXCEPT !.stage = "order"]
                    ELSE next_pair(bot_run)
    /\ UNCHANGED <<loop_vars, late_vars, order, alloc, sma, request, strategy_switches,
                   gate, sizing, fee_poll, rejection, history>>

\* place_order: the order is placed, or it fails and the pair is skipped
StopPlaceOrder ==
    /\ bot_run.stage = "order"
    /\ \E success \in BOOLEAN :
         bot_run' =
            IF success
            THEN [bot_run EXCEPT !.stage = "placed",
                                 !.orders = @ \cup {bot_run.pairs[bot_run.idx]}]
            ELSE next_pair(bot_run)
    /\ UNCHANGED <<loop_vars, late_vars, order, alloc, sma, request, strategy_switches,
                   gate, sizing, fee_poll, rejection, history>>

\* The fee lookup or the fresh ticker, then record_entry or record_exit
StopRecord ==
    /\ bot_run.stage = "placed"
    /\ bot_run' = next_pair([bot_run EXCEPT
                               !.fills = @ \cup {bot_run.pairs[bot_run.idx]}])
    /\ UNCHANGED <<loop_vars, late_vars, order, alloc, sma, request, strategy_switches,
                   gate, sizing, fee_poll, rejection, history>>

\* time.sleep(api_call_delay) and the next iteration
StopSleep ==
    /\ bot_run.stage = "sleep"
    /\ bot_run.iteration < MaxIterations
    /\ bot_run' = [bot_run EXCEPT !.stage = "analysis", !.idx = 1,
                                   !.iteration = @ + 1,
                                   !.orders = {}, !.fills = {}]
    /\ UNCHANGED <<loop_vars, late_vars, order, alloc, sma, request, strategy_switches,
                   gate, sizing, fee_poll, rejection, history>>

\* The operator presses Ctrl+C
StopSignal ==
    /\ bot_run.stage # "stopped"
    /\ bot_run' = handle_keyboard_interrupt(bot_run)
    /\ UNCHANGED <<loop_vars, late_vars, order, alloc, sma, request, strategy_switches,
                   gate, sizing, fee_poll, rejection, history>>

NextStop == StopAnalyze \/ StopPlaceOrder \/ StopRecord \/ StopSleep \/ StopSignal

SpecStop == InitStop /\ [][NextStop]_vars

\* C31: once the stop signal has made running false, the iteration that was in
\* progress has run to its end: the loop stopped in its sleep, and every order
\* placed in the iteration has its fill recorded
C31_StopCompletesIteration ==
    (bot_run.stage = "stopped" /\ ~bot_run.running)
    => /\ bot_run.interrupted = "sleep"
       /\ bot_run.orders = bot_run.fills

(***************************************************************************)
(* Required configuration keys (specification SpecConfig).  The            *)
(* configuration is the set of the keys that are present, not blank and    *)
(* parseable; require, require_int, require_float and require_bool raise   *)
(* ConfigError for any other key.  One key stands for the keys that the    *)
(* same constructor requires next to it.                                   *)
(***************************************************************************)
ConfigKeys == {"ORDER_SIZE", "HISTORY_SIZE", "GRID_SIZE", "MACD_FAST"}

\* The keys the constructor of a bot requires: AdaptiveBot.__init__ calls
\* require for its settings, MultiCoinBot.__init__ and CoinTrader.__init__
\* read theirs with config.get and a default
required_at_startup(kind) ==
    IF kind = "AdaptiveBot" THEN {"ORDER_SIZE"} ELSE {}

\* The keys the constructor of a strategy class requires
required_by_strategy(class) ==
    {"HISTORY_SIZE"}
        \cup (IF class = GridTradingStrategy THEN {"GRID_SIZE"} ELSE {})
        \cup (IF class = MACDStrategy THEN {"MACD_FAST"} ELSE {})

\* main() up to start(): the bot is constructed
NewStartup(kind, config) ==
    [stage |-> "constructing", kind |-> kind, config |-> config,
     strategy |-> NoStrategy,
     config_error |-> "none"]   \* history: where a ConfigError was raised

InitConfig ==
    /\ LoopIdle
    /\ EarlyIdle
    /\ market = NoMarket
    /\ breakout_run = NoBreakout
    /\ store = NoStore
    /\ fill = NoFill
    /\ \E kind \in {"MultiCoinBot", "AdaptiveBot"}, config \in SUBSET ConfigKeys :
         startup = NewStartup(kind, config)

\* The constructor of the bot, then start()
Construct ==
    /\ startup.stage = "constructing"
    /\ startup' =
         IF required_at_startup(startup.kind) \subseteq startup.config
         THEN [startup EXCEPT !.stage = "running"]
         ELSE [startup EXCEPT !.stage = "halted", !.config_error = "startup"]
    /\ UNCHANGED <<loop_vars, early_vars, market, breakout_run, store, fill>>

\* An iteration of the loop that selects the initial strategy or switches:
\* StrategySelector.select_strategy constructs the strategy
SelectInLoop ==
    /\ startup.stage = "running"
    /\ \E state \in MarketStates :
         LET class == select_strategy(state)
         IN  startup' =
               IF required_by_strategy(class) \subseteq startup.config
               THEN [startup EXCEPT !.strategy = class]
               ELSE [startup EXCEPT !.stage = "halted", !.config_error = "loop"]
    /\ UNCHANGED <<loop_vars, early_vars, market, breakout_run, store, fill>>

NextConfig == Construct \/ SelectInLoop

SpecConfig == InitConfig /\ [][NextConfig]_vars

\* C32: a ConfigError is raised at startup only: none is raised once the loop
\* is running, and a bot whose loop is running has every key that a strategy
\* it may instantiate requires
C32_ConfigErrorOnlyAtStartup ==
    /\ startup.stage # "none" => startup.config_error # "loop"
    /\ startup.stage = "running"
       => \A class \in StrategyClasses :
            required_by_strategy(class) \subseteq startup.config

(***************************************************************************)
(* The writes of record_entry and record_exit with failures (specification *)
(* SpecCommit).  The tables hold the committed rows; open_position,        *)
(* close_position and record_trade each end with their own conn.commit(),  *)
(* and a write that raises persists nothing and ends the recording.        *)
(***************************************************************************)
\* TradingDatabase.__init__ on an empty file
NewStore ==
    [stage |-> "idle", positions |-> <<>>, trades |-> <<>>,
     current_position_id |-> NoId,
     failed |-> "none"]         \* history: the write that raised last

\* The recording after a write: the next write, or its end when the write raised
after_write(st, write, ok, next_stage) ==
    IF ok THEN [st EXCEPT !.stage = next_stage]
    ELSE [st EXCEPT !.stage = "idle", !.failed = write]

InitCommit ==
    /\ LoopIdle
    /\ EarlyIdle
    /\ startup = NoStartup
    /\ market = NoMarket
    /\ breakout_run = NoBreakout
    /\ fill = NoFill
    /\ store = NewStore

\* record_entry: db.open_position
CommitOpen ==
    /\ store.stage = "idle"
    /\ OpenIds(store.positions, trading_pairs[1]) = {}
    /\ Len(store.positions) < MaxPositions
    /\ \E ok \in BOOLEAN, price \in StorePrices :
         store' =
            after_write(
                IF ok
                THEN [store EXCEPT
                        !.positions = open_position(@, trading_pairs[1], macd, "long",
                                                    price, 1, 0, FALSE, 0),
                        !.current_position_id = Len(store.positions) + 1]
                ELSE store,
                "open_position", ok, "entry_trade")
    /\ UNCHANGED <<loop_vars, early_vars, startup, market, breakout_run, fill>>

\* record_entry: db.record_trade for the entry
CommitEntryTrade ==
    /\ store.stage = "entry_trade"
    /\ \E ok \in BOOLEAN :
         LET row == store.positions[store.current_position_id]
         IN  store' =
               after_write(
                   IF ok
                   THEN [store EXCEPT
                           !.trades = record_trade(@, trading_pairs[1], macd, "entry",
                                                   "buy", row.entry_price,
                                                   row.entry_volume, row.entry_fee,
                                                   "long", store.current_position_id,
                                                   FALSE)]
                   ELSE store,
                   "entry_trade", ok, "idle")
    /\ UNCHANGED <<loop_vars, early_vars, startup, market, breakout_run, fill>>

\* record_exit: db.close_position
CommitClose ==
    /\ store.stage = "idle"
    /\ store.current_position_id # NoId
    /\ store.positions[store.current_position_id].status = "open"
    /\ \E ok \in BOOLEAN, price \in StorePrices :
         store' =
            after_write(
                IF ok
                THEN [store EXCEPT
                        !.positions = close_position(@, store.current_position_id,
                                                     price, 1, 0)]
                ELSE store,
                "close_position", ok, "exit_trade")
    /\ UNCHANGED <<loop_vars, early_vars, startup, market, breakout_run, fill>>

\* record_exit: db.record_trade for the exit
CommitExitTrade ==
    /\ store.stage = "exit_trade"
    /\ \E ok \in BOOLEAN :
         LET row == store.positions[store.current_position_id]
         IN  store' =
               after_write(
                   IF ok
                   THEN [store EXCEPT
                           !.trades = record_trade(@, trading_pairs[1], macd, "exit",
                                                   "sell", row.exit_price,
                                                   row.exit_volume, row.exit_fee,
                                                   "long", store.current_position_id,
                                                   FALSE),
                           !.current_position_id = NoId]
                   ELSE store,
                   "exit_trade", ok, "idle")
    /\ UNCHANGED <<loop_vars, early_vars, startup, market, breakout_run, fill>>

NextCommit == CommitOpen \/ CommitEntryTrade \/ CommitClose \/ CommitExitTrade

SpecCommit == InitCommit /\ [][NextCommit]_vars

\* Whether the trades table has a row of the type for the position
HasTrade(trds, position_id, trade_type) ==
    \E i \in DOMAIN trds :
        trds[i].position_id = position_id /\ trds[i].trade_type = trade_type

\* C33: when no recording is in progress, every position row has its entry
\* trade and every closed position row has its exit trade, also after a write
\* has failed
C33_PositionAndTradeTogether ==
    store.stage = "idle"
    => \A id \in DOMAIN store.positions :
         /\ HasTrade(store.trades, id, "entry")
         /\ store.positions[id].status = "closed"
            => HasTrade(store.trades, id, "exit")

(***************************************************************************)
(* MarketAnalyzer._determine_state (specification SpecMarket).  Indicator  *)
(* values and thresholds are in tenths, confidences in hundredths.  An     *)
(* indicator that could not be computed is None, modelled by Unavailable.  *)
(***************************************************************************)
Unavailable == 0 - 100000

adx_strong_trend == 250
adx_weak_trend == 200
choppiness_choppy == 618
choppiness_trending == 382
range_tight == 50
range_moderate == 150

\* Python truth value of an Optional[float]: None and 0.0 are false
truthy(x) == x # Unavailable /\ x # 0

\* MarketAnalyzer._determine_state
determine_state(adx, atr, choppiness, slope, range_pct) ==
    IF adx = Unavailable \/ range_pct = Unavailable THEN <<"unknown", 0>>
    ELSE IF adx > adx_strong_trend
    THEN IF truthy(slope) /\ slope > 0 THEN <<"strong_uptrend", 80>>
         ELSE IF truthy(slope) /\ slope < 0 THEN <<"strong_downtrend", 80>>
         ELSE <<"moderate_trend", 80>>
    ELSE IF adx < adx_weak_trend
    THEN IF range_pct < range_moderate
         THEN IF range_pct < range_tight THEN <<"low_volatility", 80>>
              ELSE IF truthy(choppiness) /\ choppiness < choppiness_choppy
              THEN <<"range_bound", 75>>
              ELSE <<"choppy", 60>>
         ELSE IF truthy(atr) /\ truthy(choppiness) /\ choppiness > choppiness_choppy
              THEN <<"choppy", 70>>
              ELSE <<"volatile_breakout", 60>>
    ELSE IF truthy(choppiness) /\ choppiness < choppiness_trending
         THEN <<"moderate_trend", 65>>
         ELSE <<"range_bound", 60>>

\* Indicator values on both sides of every threshold, 0 and None
AdxValues == {Unavailable, 0, 150, 220, 300}
AtrValues == {Unavailable, 0, 25}
ChoppinessValues == {Unavailable, 0, 300, 500, 700}
SlopeValues == {Unavailable, 0 - 3, 0, 3}
RangeValues == {Unavailable, 0, 30, 100, 200}

InitMarket ==
    /\ LoopIdle
    /\ EarlyIdle
    /\ startup = NoStartup
    /\ breakout_run = NoBreakout
    /\ store = NoStore
    /\ fill = NoFill
    /\ \E adx \in AdxValues, atr \in AtrValues, choppiness \in ChoppinessValues,
          slope \in SlopeValues, range_pct \in RangeValues :
         market = [stage |-> "indicators", adx |-> adx, atr |-> atr,
                   choppiness |-> choppiness, slope |-> slope,
                   range_pct |-> range_pct, state |-> "unknown", confidence |-> 0]

\* MarketAnalyzer.analyze: the call of _determine_state
DetermineState ==
    /\ market.stage = "indicators"
    /\ LET result == determine_state(market.adx, market.atr, market.choppiness,
                                     market.slope, market.range_pct)
       IN  market' = [market EXCEPT !.stage = "determined",
                                    !.state = result[1],
                                    !.confidence = result[2]]
    /\ UNCHANGED <<loop_vars, early_vars, startup, breakout_run, store, fill>>

NextMarket == DetermineState

SpecMarket == InitMarket /\ [][NextMarket]_vars

\* A comparison of the decision tree: false when the value is unavailable
available_and(x, holds) == x # Unavailable /\ holds

\* The first-match decision tree over the indicator values
first_match_tree(adx, choppiness, slope, range_pct) ==
    IF adx = Unavailable \/ range_pct = Unavailable THEN <<"unknown", 0>>
    ELSE IF adx > adx_strong_trend
    THEN IF available_and(slope, slope > 0) THEN <<"strong_uptrend", 80>>
         ELSE IF available_and(slope, slope < 0) THEN <<"strong_downtrend", 80>>
         ELSE <<"moderate_trend", 80>>
    ELSE IF adx < adx_weak_trend
    THEN IF range_pct < range_moderate
         THEN IF range_pct < range_tight THEN <<"low_volatility", 80>>
              ELSE IF available_and(choppiness, choppiness < choppiness_choppy)
              THEN <<"range_bound", 75>>
              ELSE <<"choppy", 60>>
         ELSE IF available_and(choppiness, choppiness > choppiness_choppy)
              THEN <<"choppy", 70>>
              ELSE <<"volatile_breakout", 60>>
    ELSE IF available_and(choppiness, choppiness < choppiness_trending)
         THEN <<"moderate_trend", 65>>
         ELSE <<"range_bound", 60>>

\* C34: the state and confidence returned by _determine_state are those of the
\* first-match decision tree for every combination of indicator values, and
\* UNKNOWN with confidence 0 is returned exactly when adx or range% is unavailable
C34_DetermineStateIsDecisionTree ==
    market.stage = "determined"
    => /\ <<market.state, market.confidence>>
            = first_match_tree(market.adx, market.choppiness, market.slope,
                               market.range_pct)
       /\ market.state = "unknown"
            <=> (market.adx = Unavailable \/ market.range_pct = Unavailable)

(***************************************************************************)
(* BreakoutStrategy.analyze (specification SpecBreakout).  The market data *)
(* of a call are the current price, the clustered support and resistance   *)
(* levels of detect_support_resistance, the last volume with the 20-period *)
(* average before it, and the current ATR with the mean ATR of the recent  *)
(* windows.  The volume threshold is in tenths.                            *)
(***************************************************************************)
volume_threshold == 15

\* calculate_volume_surge
calculate_volume_surge(current_volume, avg_volume) ==
    IF avg_volume = 0 THEN FALSE
    ELSE current_volume * 10 >= avg_volume * volume_threshold

\* atr_is_high of BreakoutStrategy.analyze
atr_is_high(atr, avg_atr) == avg_atr > 0 /\ atr >= avg_atr

\* min([r for r in resistance_levels if r > current_price], default=None)
nearest_resistance(resistance_levels, current_price) ==
    LET above == {r \in resistance_levels : r > current_price}
    IN  IF above = {} THEN NoPrice
        ELSE CHOOSE r \in above : \A q \in above : r <= q

\* max([s for s in support_levels if s < current_price], default=None)
nearest_support(support_levels, current_price) ==
    LET below == {l \in support_levels : l < current_price}
    IN  IF below = {} THEN NoPrice
        ELSE CHOOSE l \in below : \A q \in below : l >= q

\* abs(current_price - level) / level < 0.02
near_level(current_price, level) ==
    LET diff == IF current_price >= level THEN current_price - level
                ELSE level - current_price
    IN  diff * 100 < 2 * level

\* BreakoutStrategy.__init__
NewBreakout(require_retest) ==
    [stage |-> "created", require_retest |-> require_retest,
     last_resistance |-> NoPrice, last_support |-> NoPrice,
     breakout_confirmed |-> FALSE, breakout_type |-> "none",
     analyses |-> 0, signal |-> "none",
     data |-> [price |-> NoPrice, resistance_levels |-> {}, support_levels |-> {},
               volume |-> <<0, 0>>, atr |-> <<0, 0>>]]

\* BreakoutStrategy.analyze after the data checks, on the data of the call
BreakoutStrategy_analyze(b, data) ==
    LET current_price == data.price
        last_resistance == nearest_resistance(data.resistance_levels, current_price)
        last_support == nearest_support(data.support_levels, current_price)
        volume_surge == calculate_volume_surge(data.volume[1], data.volume[2])
        atr_high == atr_is_high(data.atr[1], data.atr[2])
        seen == [b EXCEPT !.stage = "analyzed", !.data = data,
                          !.analyses = @ + 1,
                          !.last_resistance = last_resistance,
                          !.last_support = last_support]
        bullish == last_resistance # NoPrice /\ current_price > last_resistance
        bearish == last_support # NoPrice /\ current_price < last_support
        confirmed == volume_surge /\ atr_high
        retest ==
            IF /\ b.breakout_confirmed /\ b.breakout_type = "bullish"
               /\ last_resistance # NoPrice
            THEN IF near_level(current_price, last_resistance)
                 THEN [seen EXCEPT !.breakout_confirmed = FALSE, !.signal = "buy"]
                 ELSE [seen EXCEPT !.signal = "none"]
            ELSE IF /\ b.breakout_confirmed /\ b.breakout_type = "bearish"
                    /\ last_support # NoPrice
            THEN IF near_level(current_price, last_support)
                 THEN [seen EXCEPT !.breakout_confirmed = FALSE, !.signal = "sell"]
                 ELSE [seen EXCEPT !.signal = "none"]
            ELSE [seen EXCEPT !.signal = "none"]
    IN  IF bullish /\ confirmed
        THEN IF ~b.require_retest \/ b.breakout_confirmed
             THEN [seen EXCEPT !.signal = "buy"]
             ELSE [seen EXCEPT !.breakout_confirmed = TRUE,
                               !.breakout_type = "bullish", !.signal = "none"]
        ELSE IF ~bullish /\ bearish /\ confirmed
        THEN IF ~b.require_retest \/ b.breakout_confirmed
             THEN [seen EXCEPT !.signal = "sell"]
             ELSE [seen EXCEPT !.breakout_confirmed = TRUE,
                               !.breakout_type = "bearish", !.signal = "none"]
        ELSE retest

\* Prices below, between and above the levels the clustering may return
BreakoutPrices == {9800, 10000, 10200}
BreakoutLevels == {9900, 10100}
\* <<last volume, average volume>> and <<current ATR, mean ATR>>
BreakoutVolumes == {<<10, 10>>, <<15, 10>>, <<20, 0>>}
BreakoutAtrs == {<<40, 50>>, <<50, 50>>, <<50, 0>>}

InitBreakout ==
    /\ LoopIdle
    /\ EarlyIdle
    /\ startup = NoStartup
    /\ market = NoMarket
    /\ store = NoStore
    /\ fill = NoFill
    /\ \E require_retest \in BOOLEAN : breakout_run = NewBreakout(require_retest)

\* One call of analyze with sufficient data and both kinds of level detected
BreakoutAnalyze ==
    /\ breakout_run.analyses < MaxAnalyses
    /\ \E price \in BreakoutPrices,
          resistance_levels \in SUBSET BreakoutLevels \ {{}},
          support_levels \in SUBSET BreakoutLevels \ {{}},
          volume \in BreakoutVolumes, atr \in BreakoutAtrs :
         breakout_run' =
            BreakoutStrategy_analyze(breakout_run,
                [price |-> price, resistance_levels |-> resistance_levels,
                 support_levels |-> support_levels, volume |-> volume, atr |-> atr])
    /\ UNCHANGED <<loop_vars, early_vars, startup, market, store, fill>>

NextBreakout == BreakoutAnalyze

SpecBreakout == InitBreakout /\ [][NextBreakout]_vars

\* C35: with retest confirmation off, analyze returns buy exactly when the
\* price is above the resistance, the last volume is at least threshold times
\* the average volume, and the ATR is at least the mean ATR
C35_BuyOnConfirmedBreakout ==
    (breakout_run.stage = "analyzed" /\ ~breakout_run.require_retest)
    => (breakout_run.signal = "buy"
        <=> /\ \A r \in breakout_run.data.resistance_levels :
                  breakout_run.data.price > r
            /\ breakout_run.data.volume[1] * 10
                  >= breakout_run.data.volume[2] * volume_threshold
            /\ breakout_run.data.volume[2] > 0
            /\ breakout_run.data.atr[1] >= breakout_run.data.atr[2]
            /\ breakout_run.data.atr[2] > 0)

\* C36: the single-instrument AdaptiveBot never holds a short position and
\* never has more than one open position row for its pair
C36_AdaptiveBotSpotOnly ==
    bot = "AdaptiveBot"
    => /\ traders[trading_pairs[1]].position # "short"
       /\ Cardinality(OpenIds(positions, trading_pairs[1])) <= 1

\* C37: at the end of every tick of the multi-instrument loop, every symbol
\* with a selected strategy has the strategy's position 'long' exactly when the
\* store has an open position for the symbol
C37_LocalPositionMatchesStore ==
    (bot = "MultiCoinBot" /\ pc = "idle")
    => \A s \in Symbols :
         traders[s].strategy # NoStrategy
         => (traders[s].position = "long" <=> OpenIds(positions, s) # {})

(***************************************************************************)
(* The order and the recording of a fill in run_iteration (specification   *)
(* SpecFill), for one symbol.  A price counts 10^-PriceDecimals of the     *)
(* quote currency.  position_size is the float value / price, kept as an   *)
(* exact quotient num / den of volume units of 10^-VolumeDecimals; the     *)
(* volume given to add_order is a count of these units.                    *)
(***************************************************************************)
RatEq(a, b) == a.num * b.den = b.num * a.den
RatFloor(a) == a.num \div a.den
RatOf(n) == [num |-> n, den |-> 1]

\* The quotient in lowest terms
RECURSIVE Gcd(_, _)
Gcd(a, b) == IF b = 0 THEN a ELSE Gcd(b, a % b)
RatReduce(a) ==
    LET g == Gcd(a.num, a.den)
    IN  IF a.num = 0 THEN Zero ELSE [num |-> a.num \div g, den |-> a.den \div g]

\* position_size = position_value / current_price
position_size_of(position_value, current_price) ==
    IF current_price > 0
    THEN RatReduce([num |-> position_value.num
                              * Pow10(VolumeDecimals + PriceDecimals - 4),
                    den |-> position_value.den * current_price])
    ELSE Zero

\* The settings of the bot of this specification; the balance is read again
\* by update_account_balance at the start of every iteration
FillConfig(account_balance) ==
    [position_sizing_mode |-> "pct", account_balance |-> account_balance,
     max_total_exposure |-> 75, max_per_coin |-> 25, max_position_pct |-> 10,
     fee_buffer_pct |-> 1, num_pairs |-> 1, total_exposure |-> 0]

FillBalances == {1000, 1200}
FillPrices == {10000, 30000, 70000}
FillRules ==
    [lot_decimals |-> 4, pair_decimals |-> 2, tick_size |-> Absent,
     ordermin |-> 20000, costmin |-> Absent]

\* MultiCoinBot.place_order: what it returns and what it gives to add_order
MultiCoinBot_place_order(dry, size, price) ==
    LET normalized == normalize_order_with_rules(FillRules, "limit", RatFloor(size),
                                                 price, price)
    IN  IF dry THEN [success |-> TRUE, submitted |-> Absent]
        ELSE IF ~normalized.ok THEN [success |-> FALSE, submitted |-> Absent]
        ELSE [success |-> TRUE, submitted |-> normalized.volume]

\* MultiCoinBot.__init__ with an empty store
NewFill(dry) ==
    [stage |-> "flat", dry_run |-> dry,
     positions |-> <<>>,        \* rows: entry_volume, exit_volume, status
     trades |-> <<>>,           \* rows: trade_type, side, volume, position_id
     orders |-> <<>>,           \* history: the calls of add_order
     last |-> [signal |-> "none", success |-> FALSE, submitted |-> Absent]]

InitFill ==
    /\ LoopIdle
    /\ EarlyIdle
    /\ startup = NoStartup
    /\ market = NoMarket
    /\ breakout_run = NoBreakout
    /\ store = NoStore
    /\ \E dry \in BOOLEAN : fill = NewFill(dry)

\* run_iteration on a buy signal with no open position in the store
FillBuy ==
    /\ fill.stage = "flat"
    /\ Len(fill.positions) < MaxPositions
    /\ \E account_balance \in FillBalances, current_price \in FillPrices :
         LET position_size ==
                 position_size_of(
                     calculate_position_size(FillConfig(account_balance), current_price),
                     current_price)
             placed == MultiCoinBot_place_order(fill.dry_run, position_size,
                                                current_price)
             id == Len(fill.positions) + 1
         IN  /\ position_size.num > 0
             /\ fill' =
                  IF ~placed.success
                  THEN [fill EXCEPT !.last = [signal |-> "buy", success |-> FALSE,
                                              submitted |-> Absent]]
                  ELSE [fill EXCEPT
                          !.stage = "long",
                          !.positions = Append(@, [entry_volume |-> position_size,
                                                   exit_volume |-> Zero,
                                                   status |-> "open"]),
                          !.trades = Append(@, [trade_type |-> "entry", side |-> "buy",
                                                volume |-> position_size,
                                                position_id |-> id]),
                          !.orders = IF fill.dry_run THEN @
                                     ELSE Append(@, [type |-> "buy",
                                                     volume |-> placed.submitted]),
                          !.last = [signal |-> "buy", success |-> TRUE,
                                    submitted |-> placed.submitted]]
    /\ UNCHANGED <<loop_vars, early_vars, startup, market, breakout_run, store>>

\* run_iteration on a sell signal with an open position in the store
FillSell ==
    /\ fill.stage = "long"
    /\ \E account_balance \in FillBalances, current_price \in FillPrices :
         LET position_size ==
                 position_size_of(
                     calculate_position_size(FillConfig(account_balance), current_price),
                     current_price)
             placed == MultiCoinBot_place_order(fill.dry_run, position_size,
                                                current_price)
             id == Len(fill.positions)
         IN  /\ position_size.num > 0
             /\ fill' =
                  IF ~placed.success
                  THEN [fill EXCEPT !.last = [signal |-> "sell", success |-> FALSE,
                                              submitted |-> Absent]]
                  ELSE [fill EXCEPT
                          !.stage = "flat",
                          !.positions[id].exit_volume = position_size,
                          !.positions[id].status = "closed",
                          !.trades = Append(@, [trade_type |-> "exit", side |-> "sell",
                                                volume |-> position_size,
                                                position_id |-> id]),
                          !.orders = IF fill.dry_run THEN @
                                     ELSE Append(@, [type |-> "sell",
                                                     volume |-> placed.submitted]),
                          !.last = [signal |-> "sell", success |-> TRUE,
                                    submitted |-> placed.submitted]]
    /\ UNCHANGED <<loop_vars, early_vars, startup, market, breakout_run, store>>

NextFill == FillBuy \/ FillSell

SpecFill == InitFill /\ [][NextFill]_vars

\* C38: every executed sell closes the whole position: the exit_volume recorded
\* at close, and the volume of a live sell order, equal the entry_volume of the
\* position that is closed
C38_SellClosesWholePosition ==
    (fill.last.signal = "sell" /\ fill.last.success)
    => LET row == fill.positions[Len(fill.positions)]
       IN  /\ RatEq(row.exit_volume, row.entry_volume)
           /\ ~fill.dry_run => RatEq(RatOf(fill.last.submitted), row.entry_volume)

\* C39: for every live fill, the volume in the position row and in the trade
\* row equals the normalized volume given to add_order
C39_PersistedVolumeIsSubmitted ==
    (fill.last.success /\ ~fill.dry_run)
    => LET row == fill.positions[Len(fill.positions)]
           trade == fill.trades[Len(fill.trades)]
           submitted == RatOf(fill.orders[Len(fill.orders)].volume)
       IN  /\ RatEq(trade.volume, submitted)
           /\ RatEq(IF fill.last.signal = "buy" THEN row.entry_volume
                    ELSE row.exit_volume, submitted)

\* C40: every exit trade of a CoinTrader has the position_type of the position
\* it references and the side opposite to that of the position's entry trade
C40_ExitTradeMatchesPosition ==
    bot = "MultiCoinBot"
    => \A i \in DOMAIN trades :
         (trades[i].trade_type = "exit" /\ trades[i].position_id # NoId)
         => /\ trades[i].position_type
                 = positions[trades[i].position_id].position_type
            /\ \A j \in DOMAIN trades :
                 (/\ trades[j].trade_type = "entry"
                  /\ trades[j].position_id = trades[i].position_id)
                 => trades[j].side # trades[i].side

=============================================================================
